---- MODULE Spec2Model ----
(***************************************************************************)
(* Per-guild playback state machine of RPAMusicBot: AudioSourceManager     *)
(* (utils/audio.py) driven by the command handlers (utils/commands.py,     *)
(* cogs/music_cog.py) on one cooperative asyncio event loop.               *)
(*                                                                         *)
(* One step of the model is one uninterrupted run of a coroutine between   *)
(* two suspension points (an await that really suspends), or one event of  *)
(* the audio player thread (a source reaching its end).                    *)
(***************************************************************************)
EXTENDS Integers, Sequences, FiniteSets, TLC

\* ------------------------------------------------------------------ bounds
MaxTasks == 3        \* playback tasks created in one behaviour
MaxCmds == 2         \* command coroutines suspended at the same time
MaxElapsed == 1      \* seconds the clock advances after a start mark
MaxGuildTasks == 2   \* playback tasks one guild creates in the two-guild scenario
MaxProbes == 3       \* ffprobe runs counted for one path

\* ------------------------------------------------------------------ inputs
None == "None"
Paths == {"a", "b", "x", "u", "w"}
Unprobed == {"u", "w"}    \* files ffprobe gives no duration for
Guilds == {1, 2}
MixVolumes == {1, 2}
PlayPaths == {"a"}
Types == {"music", "ambient", "mixed"}
CmdTypes == {"music"}
SeekArgs == {1}
FadeArgs == {1}
VolumeArgs == {1}

\* the first of two durations, whatever the second
First(x, y) == x

Min(x, y) == IF x <= y THEN x ELSE y
Max(x, y) == IF x >= y THEN x ELSE y

\* ffprobe's answer for a path, in seconds; a failed probe (no such file, or a file
\* ffprobe cannot read) is 0.0
get_track_duration(path) == IF path \in Paths \ Unprobed THEN 2 ELSE 0

\* os.path.isfile for the tracks of the collection
isfile(path) == path \in Paths

\* the mixer before it is called: no arguments, no ffmpeg command
NoMix == [music_path |-> None, ambient_path |-> None, music_vol |-> 0, ambient_vol |-> 0,
          command |-> {}]

\* ------------------------------------------------------------------ state
VARIABLES
  current_track,       \* path or None
  current_type,        \* category or None
  loop_flags,          \* category -> BOOLEAN
  volumes,             \* category -> volume
  fade_config,         \* category -> [in_enabled, out_enabled, in_dur, out_dur]
  _play_task,          \* id of the task self._play_task refers to, 0 = None
  _play_lock,          \* [holder: task id or 0, waiters: FIFO of task ids]
  since_start,         \* loop.time() - self._start_time, -1 while _start_time is None
  _start_seek_offset,  \* seconds skipped by the last launch
  voice,               \* [conn, player, paused]: the VoiceClient held by the manager
  live,                \* tasks whose decode pipeline is attached and not stopped
  tasks,               \* every _play_loop_or_single task ever created
  cmds,                \* suspended or scheduled command coroutines, in wake-up order
  script,              \* calls made so far of a scripted scenario (0 when there is none)
  reply,               \* the last message a command handler sent back, None before the first
  mixer,               \* AudioMixer.mix_tracks: its arguments and the ffmpeg command it built
  guild_players,       \* bot.guild_players: guild id -> the guild's manager, {} before its first play
  ffprobe,             \* [cache, runs]: lru_cache of get_track_duration, ffprobe runs per path
  _palette_loop_enabled \* what the palette's Loop button last asked for, {} before the first press

\* what the playback of one guild never touches: the mixer, the managers of the
\* guilds as the handlers look them up, the duration probes, and the attribute the
\* palette keeps on the manager
elsewhere == <<mixer, guild_players, ffprobe, _palette_loop_enabled>>

vars == <<current_track, current_type, loop_flags, volumes, fade_config, _play_task,
          _play_lock, since_start, _start_seek_offset, voice, live, tasks, cmds, script, reply,
          mixer, guild_players, ffprobe, _palette_loop_enabled>>

TaskIds == 1..Len(tasks)
NonTerminal == {"new", "lock", "play", "spin"}
Terminal == {"done", "cancelled", "failed"}

\* task.done()
done(t) == tasks[t].st \in Terminal

\* the event loop is stuck inside a coroutine that never awaits
Hung == \E t \in TaskIds : tasks[t].st = "spin"

\* voice.is_connected(), voice.is_playing(), voice.is_paused()
is_connected == voice.conn = "connected"
is_playing == voice.player # 0 /\ ~voice.paused
is_paused == voice.player # 0 /\ voice.paused

\* self._play_task and not self._play_task.done()
TaskActive == _play_task # 0 /\ ~done(_play_task)

InitPlayer ==
  /\ current_track = None
  /\ current_type = None
  /\ loop_flags = [c \in Types |-> FALSE]
  /\ volumes = [c \in Types |-> 1]
  /\ fade_config = [c \in Types |->
        IF c = "ambient"
          THEN [in_enabled |-> FALSE, out_enabled |-> FALSE, in_dur |-> 2, out_dur |-> 2]
          ELSE [in_enabled |-> FALSE, out_enabled |-> TRUE, in_dur |-> 3, out_dur |-> 5]]
  /\ _play_task = 0
  /\ _play_lock = [holder |-> 0, waiters |-> <<>>]
  /\ since_start = -1
  /\ _start_seek_offset = 0
  /\ voice \in {[conn |-> c, player |-> 0, paused |-> FALSE] : c \in {"none", "connected"}}
  /\ live = {}
  /\ tasks = <<>>
  /\ cmds = <<>>
  /\ script = 0
  /\ reply = None
  /\ _palette_loop_enabled = {}

\* nothing mixed yet, no guild has a manager yet (main.py:46), nothing probed yet
Init ==
  /\ InitPlayer
  /\ mixer = NoMix
  /\ guild_players = [g \in Guilds |-> {}]
  /\ ffprobe = [cache |-> <<>>, runs |-> [p \in Paths |-> 0]]


\* ------------------------------------------------------------------ helpers
Remove(seq, x) == SelectSeq(seq, LAMBDA y : y # x)
RemoveAt(seq, i) == SubSeq(seq, 1, i - 1) \o SubSeq(seq, i + 1, Len(seq))

\* the coroutine object created by _play_loop_or_single(path, seek_seconds, fade_in, fade_out);
\* vol is the volume filter of the source it has attached (0 while it has none),
\* source the ffmpeg options of that source
NoSource == [ss |-> 0, volume |-> 0, afade_in |-> {}, afade_out |-> {}]

NewTask(path, seek, fi, fo) ==
  [st |-> "new", path |-> path, seek |-> seek, fi |-> fi, fo |-> fo,
   cancel |-> FALSE, evt |-> "unset", again |-> FALSE, vol |-> 0, source |-> NoSource]

\* a finished task: its locals are dead, only how it ended is left
Ended(tk, how) ==
  [st |-> how, path |-> None, seek |-> 0, fi |-> 0, fo |-> 0,
   cancel |-> FALSE, evt |-> "unset", again |-> FALSE, vol |-> 0, source |-> NoSource]

\* task.cancel(): a request, raised inside the task at its next step. From here on
\* the task never reads its locals or its play_done again, so they are dropped
cancel(ts, t) ==
  IF t # 0 /\ ts[t].st \in {"new", "lock", "play"}
    THEN [ts EXCEPT ![t] = [Ended(@, @.st) EXCEPT !.cancel = TRUE]]
    ELSE ts

\* a loop check that never finds the flag set
LoopFlagIgnored == FALSE

\* self.loop_flags.get(self.current_type, False)
LoopFlag == current_type \in Types /\ loop_flags[current_type]

\* voice.stop(): the player is dropped, its after callback sets play_done of its launch
StopVoice == [voice EXCEPT !.player = 0, !.paused = FALSE]
StopTasks(ts) ==
  IF voice.player # 0 /\ ts[voice.player].st = "play" /\ ~ts[voice.player].cancel
    THEN [ts EXCEPT ![voice.player].evt = "ok"]
    ELSE ts
StopLive == live \ {voice.player}

\* Lock.acquire() has to wait: the lock is held or somebody queues for it
MustQueue(lk) ==
  lk.holder # 0 \/ \E i \in 1..Len(lk.waiters) : ~tasks[lk.waiters[i]].cancel

\* self.volumes.get(self.current_type, 1.0) (159)
SourceVolume == IF current_type \in Types THEN volumes[current_type] ELSE 1

\* a launch that starts from whatever offset the task was given
GivenSeek(tk) == tk.seek

\* seek_seconds as _play_source passes it on (reset when past the end)
LaunchSeek(tk) == IF tk.seek >= get_track_duration(tk.path) THEN 0 ELSE tk.seek

\* a task that keeps seek_seconds and fade_in for its repeats
KeepLocals(tk) == tk

\* where _create_audio_source puts the start of afade out, in seconds of the
\* launched stream (172-178)
FadeOutStart(path, seek_seconds, fade_out_d) ==
  Max(Max(get_track_duration(path) - seek_seconds, 0) - fade_out_d, 0)

\* a source with the volume filter and nothing else
_create_audio_source_plain(path, seek_seconds, fade_in, fade_out) ==
  [ss |-> seek_seconds, volume |-> SourceVolume, afade_in |-> {}, afade_out |-> {}]

\* _create_audio_source (154-195) for a file that is there: `-ss seek_seconds` and
\* the filters volume, afade=t=in:st=0:d=fade_in, afade=t=out:st=start:d=fade_out;
\* an afade is the set of its <<st, d>>, empty when the filter is left out
_create_audio_source(path, seek_seconds, fade_in, fade_out) ==
  [ss |-> seek_seconds,
   volume |-> SourceVolume,
   afade_in |-> IF fade_in > 0 THEN {<<0, fade_in>>} ELSE {},
   afade_out |-> IF fade_out > 0
                   THEN {<<FadeOutStart(path, seek_seconds, fade_out), fade_out>>}
                   ELSE {}]

\* lines 98-99: repeats start from the beginning without fade-in
ResetLocals(tk) == [tk EXCEPT !.seek = 0, !.fi = 0]

\* the task is past its first `await self._play_source(...)`
Returned(tk) == [ResetLocals(tk) EXCEPT !.again = TRUE]


\* ------------------------------------------------------------------ playback task
\* what no step of a playback task touches
TaskFrame == UNCHANGED <<elsewhere, current_track, current_type, loop_flags, volumes, fade_config,
                         _play_task, cmds, script, reply>>

\* a task that swallows CancelledError and returns normally
TaskSwallowsCancel(t) ==
  /\ ~Hung
  /\ tasks[t].st \in {"new", "lock", "play"}
  /\ tasks[t].cancel
  /\ tasks' = [tasks EXCEPT ![t] = Ended(@, "done")]
  /\ _play_lock' = [holder |-> IF _play_lock.holder = t THEN 0 ELSE _play_lock.holder,
                    waiters |-> Remove(_play_lock.waiters, t)]
  /\ UNCHANGED <<since_start, _start_seek_offset, voice, live>>
  /\ TaskFrame

\* CancelledError is raised at the await the task is suspended in (or before its
\* first statement): the lock is given back, the exception is re-raised (113-115)
TaskCancelled(t) ==
  /\ ~Hung
  /\ tasks[t].st \in {"new", "lock", "play"}
  /\ tasks[t].cancel
  /\ tasks' = [tasks EXCEPT ![t] = Ended(@, "cancelled")]
  /\ _play_lock' = [holder |-> IF _play_lock.holder = t THEN 0 ELSE _play_lock.holder,
                    waiters |-> Remove(_play_lock.waiters, t)]
  /\ UNCHANGED <<since_start, _start_seek_offset, voice, live>>
  /\ TaskFrame

\* `async with self._play_lock` suspends in Lock.acquire()
Queue(t, tk, lk) ==
  /\ tasks' = [tasks EXCEPT ![t] = [tk EXCEPT !.st = "lock", !.evt = "unset", !.vol = 0,
                                                   !.source = NoSource]]
  /\ _play_lock' = [lk EXCEPT !.waiters = Append(@, t)]
  /\ UNCHANGED <<since_start, _start_seek_offset, voice, live>>

\* the loop flag is off: `break`, the coroutine returns (103-105)
Complete(t, tk, lk) ==
  /\ tasks' = [tasks EXCEPT ![t] = Ended(tk, "done")]
  /\ _play_lock' = lk
  /\ UNCHANGED <<since_start, _start_seek_offset, voice, live>>

\* _play_source returns without awaiting and the loop flag is on: `while True`
\* runs again and again and never gives the event loop back
Spin(t, tk, lk) ==
  /\ tasks' = [tasks EXCEPT ![t] = [tk EXCEPT !.st = "spin", !.evt = "unset", !.vol = 0,
                                                   !.source = NoSource]]
  /\ _play_lock' = lk
  /\ UNCHANGED <<since_start, _start_seek_offset, voice, live>>

\* an exception leaves _play_source: logged by `except Exception` (116-117)
Fail(t, tk, lk) ==
  /\ tasks' = [tasks EXCEPT ![t] = Ended(tk, "failed")]
  /\ _play_lock' = lk
  /\ UNCHANGED <<since_start, _start_seek_offset, voice, live>>

\* a launch that attaches its source without stopping the one that plays
NeverStopBeforePlay == FALSE

\* `if self.voice.is_playing(): self.voice.stop()` right before voice.play (138-139)
StopBeforePlay == is_playing

\* _play_source from the start mark on (133-152): the previous source is stopped,
\* the new one is attached (ok) or voice.play raises (~ok)
Launch(t, tk, lk, ok) ==
  LET stopped == StopBeforePlay
      ts == IF stopped THEN StopTasks(tasks) ELSE tasks
      lv == IF stopped THEN StopLive ELSE live
  IN /\ since_start' = 0
     /\ _start_seek_offset' = LaunchSeek(tk)
     /\ IF ok
          THEN /\ tasks' = [ts EXCEPT ![t] = [tk EXCEPT
                                  !.st = "play", !.evt = "unset", !.vol = SourceVolume,
                                  !.source = _create_audio_source(tk.path, LaunchSeek(tk),
                                                                  tk.fi, tk.fo)]]
               /\ voice' = [voice EXCEPT !.player = t, !.paused = FALSE]
               /\ live' = lv \cup {t}
               /\ _play_lock' = [lk EXCEPT !.holder = t]
          ELSE /\ tasks' = [ts EXCEPT ![t] = Ended(tk, "failed")]
               /\ voice' = IF stopped THEN StopVoice ELSE voice
               /\ live' = lv
               /\ _play_lock' = lk

\* one pass of `async with self._play_lock: await self._play_source(...)` once the
\* lock is taken; lk is the lock as it is when the task does not hold it
Body(t, tk, lk) ==
  IF ~is_connected \/ (tk.path # None /\ ~isfile(tk.path))
    THEN \* _play_source returns at once (120-122, 130-131)
         IF LoopFlag
           THEN IF MustQueue(lk) THEN Queue(t, Returned(tk), lk)
                                 ELSE Spin(t, Returned(tk), lk)
           ELSE Complete(t, Returned(tk), lk)
    ELSE IF tk.path = None
      THEN Fail(t, tk, lk)        \* os.path.isfile(None) raises TypeError
      ELSE \E ok \in BOOLEAN : Launch(t, tk, lk, ok)

\* top of `while True` (94-96)
RunLoop(t, tk, lk) ==
  IF MustQueue(lk) THEN Queue(t, tk, lk) ELSE Body(t, tk, lk)

\* first step of a task that was not cancelled before it started
TaskStart(t) ==
  /\ ~Hung
  /\ tasks[t].st = "new"
  /\ ~tasks[t].cancel
  /\ RunLoop(t, tasks[t], _play_lock)
  /\ TaskFrame

\* Lock.acquire() returns: the task is the first in the queue of a free lock
TaskLocked(t) ==
  /\ ~Hung
  /\ tasks[t].st = "lock"
  /\ ~tasks[t].cancel
  /\ _play_lock.holder = 0
  /\ Head(_play_lock.waiters) = t
  /\ Body(t, tasks[t], [holder |-> 0, waiters |-> Tail(_play_lock.waiters)])
  /\ TaskFrame

\* play_done.wait() returns: the lock is released, the locals are reset and the
\* loop flag decides between `break` and the next pass (97-111)
TaskWake(t) ==
  /\ ~Hung
  /\ tasks[t].st = "play"
  /\ tasks[t].evt # "unset"
  /\ ~tasks[t].cancel
  /\ LET tk == Returned(tasks[t])
         lk == [_play_lock EXCEPT !.holder = 0]
     IN IF LoopFlag THEN RunLoop(t, tk, lk) ELSE Complete(t, tk, lk)
  /\ TaskFrame

\* the player thread: the source ends (EOF, or an error of the pipeline) and the
\* after callback sets play_done (143-146)
SourceEnd(err) ==
  /\ is_playing
  /\ voice' = StopVoice
  /\ live' = StopLive
  /\ tasks' = IF tasks[voice.player].st = "play" /\ ~tasks[voice.player].cancel
                THEN [tasks EXCEPT ![voice.player].evt = IF err THEN "error" ELSE "ok"]
                ELSE tasks
  /\ UNCHANGED <<_play_lock, since_start, _start_seek_offset>>
  /\ TaskFrame

\* loop.time() advances
Tick ==
  /\ since_start >= 0
  /\ since_start < MaxElapsed
  /\ since_start' = since_start + 1
  /\ UNCHANGED <<_start_seek_offset, voice, live, tasks, _play_lock>>
  /\ TaskFrame


\* ------------------------------------------------------------------ commands
\* a coroutine parked in cmds: op says where, wait is the task it awaits
Cmd(op, wait, path, type, pos, fi, fo) ==
  [op |-> op, wait |-> wait, path |-> path, type |-> type, pos |-> pos, fi |-> fi, fo |-> fo]

\* self._play_task = asyncio.create_task(self._play_loop_or_single(...))
Create(ts, path, seek, fi, fo) ==
  /\ Len(ts) < MaxTasks
  /\ tasks' = Append(ts, NewTask(path, seek, fi, fo))
  /\ _play_task' = Len(ts) + 1

\* cancel the active task and suspend in `await self._play_task`
CancelAndAwait(rest, c) ==
  /\ Len(rest) < MaxCmds
  /\ tasks' = cancel(tasks, _play_task)
  /\ cmds' = Append(rest, c)
  /\ UNCHANGED _play_task

\* a play() whose fade-in comes from the settings whenever they are enabled
ConfiguredFadeIn(type, fi) ==
  IF fade_config[type].in_enabled THEN fade_config[type].in_dur ELSE fi

\* fade durations of play(): the player's settings where no explicit value is given (70-75)
EffectiveFadeIn(type, fi) ==
  IF fi = 0 /\ fade_config[type].in_enabled THEN fade_config[type].in_dur ELSE fi
EffectiveFadeOut(type, fo) ==
  IF fo = 0 /\ fade_config[type].out_enabled THEN fade_config[type].out_dur ELSE fo

\* a play() that goes on without looking at the voice connection
play_unguarded(connected, path, type, fi, fo, rest) ==
  /\ current_track' = path
  /\ current_type' = type
  /\ IF TaskActive
       THEN CancelAndAwait(rest, Cmd("play", _play_task, path, type, 0,
                                     EffectiveFadeIn(type, fi), EffectiveFadeOut(type, fo)))
       ELSE /\ Create(tasks, path, 0, EffectiveFadeIn(type, fi), EffectiveFadeOut(type, fo))
            /\ cmds' = rest

\* AudioSourceManager.play (65-89) up to its first suspension; connected is
\* self.voice.is_connected() as the call finds it, rest the other parked coroutines
play(connected, path, type, fi, fo, rest) ==
  IF ~connected
    THEN /\ cmds' = rest
         /\ UNCHANGED <<current_track, current_type, tasks, _play_task>>
    ELSE /\ current_track' = path
         /\ current_type' = type
         /\ IF TaskActive
              THEN CancelAndAwait(rest, Cmd("play", _play_task, path, type, 0,
                                            EffectiveFadeIn(type, fi), EffectiveFadeOut(type, fo)))
              ELSE /\ Create(tasks, path, 0, EffectiveFadeIn(type, fi),
                             EffectiveFadeOut(type, fo))
                   /\ cmds' = rest

\* play_command (commands.py 9-81): ensure_voice connects when there is no live
\* connection, then player.play(path, track_type)
play_command(path, type) ==
  /\ ~Hung
  /\ IF is_connected
       THEN /\ play(TRUE, path, type, 0, 0, cmds)
            /\ UNCHANGED voice
       ELSE \* voice_channel.connect(); a second connect of the guild is refused
            /\ \A i \in 1..Len(cmds) : cmds[i].op \notin {"connect", "connect_mix", "disconnect"}
            /\ Len(cmds) < MaxCmds
            /\ cmds' = Append(cmds, Cmd("connect", 0, path, type, 0, 0, 0))
            /\ UNCHANGED <<current_track, current_type, tasks, _play_task, voice>>
  /\ UNCHANGED <<loop_flags, volumes, fade_config, _play_lock, since_start,
                 _start_seek_offset, live>>

PlayCommand(path, type) == play_command(path, type) /\ UNCHANGED <<elsewhere, script, reply>>

\* fade-out carried over by seek (216-218)
SeekFadeOut ==
  IF current_type \in Types /\ fade_config[current_type].out_enabled
    THEN fade_config[current_type].out_dur
    ELSE 0

\* a seek that does not look whether there is a track
AnyTrack == TRUE

\* `self.current_track and os.path.isfile(self.current_track)` (198)
HasTrack == current_track # None /\ isfile(current_track)

\* a seek that goes on with the position it was given
SeekUnclamped(position) == position

\* the position seek goes on with (202-205)
SeekPosition(position) ==
  LET duration == get_track_duration(current_track)
  IN IF duration # 0 /\ position >= duration THEN 0 ELSE position

\* AudioSourceManager.seek (197-221); without a track it returns at once
seek(position) ==
  /\ ~Hung
  /\ IF HasTrack
       THEN IF TaskActive
              THEN CancelAndAwait(cmds, Cmd("seek", _play_task, None, None,
                                            SeekPosition(position), 0, 0))
              ELSE /\ Create(tasks, current_track, SeekPosition(position), 0, SeekFadeOut)
                   /\ UNCHANGED cmds
       ELSE UNCHANGED <<tasks, _play_task, cmds>>
  /\ UNCHANGED <<elsewhere, script, reply, current_track, current_type, loop_flags, volumes, fade_config,
                 _play_lock, since_start, _start_seek_offset, voice, live>>

\* get_current_position() or 0.0 (266-272, 285)
get_current_position == IF since_start < 0 THEN 0 ELSE since_start + _start_seek_offset

\* AudioSourceManager.fade_out (274-305)
fade_out(fade_duration) ==
  /\ ~Hung
  /\ current_track # None /\ isfile(current_track)
  /\ voice.conn # "none" /\ is_playing
  /\ LET pos == get_current_position
         remaining == Max(get_track_duration(current_track) - pos, 0)
         fade_d == Min(fade_duration, remaining)
     IN /\ remaining > 0
        /\ IF TaskActive
             THEN CancelAndAwait(cmds, Cmd("fade_out", _play_task, None, None, pos, 0, fade_d))
             ELSE /\ Create(tasks, current_track, pos, 0, fade_d)
                  /\ UNCHANGED cmds
  /\ UNCHANGED <<elsewhere, script, reply, current_track, current_type, loop_flags, volumes, fade_config,
                 _play_lock, since_start, _start_seek_offset, voice, live>>

\* AudioSourceManager.restart_with_fade_in (307-322)
restart_with_fade_in(fade_duration) ==
  /\ ~Hung
  /\ current_track # None /\ isfile(current_track)
  /\ IF TaskActive
       THEN CancelAndAwait(cmds, Cmd("restart", _play_task, None, None, 0, fade_duration, 0))
       ELSE /\ Create(tasks, current_track, 0, fade_duration, 0)
            /\ UNCHANGED cmds
  /\ UNCHANGED <<elsewhere, script, reply, current_track, current_type, loop_flags, volumes, fade_config,
                 _play_lock, since_start, _start_seek_offset, voice, live>>

\* a set_volume that stores the volume and leaves the stream alone
set_volume_stored_only(type, volume) ==
  /\ ~Hung
  /\ volumes' = [volumes EXCEPT ![type] = volume]
  /\ UNCHANGED <<voice, live, tasks, cmds>>
  /\ UNCHANGED <<elsewhere, script, reply, current_track, current_type, loop_flags, fade_config, _play_task,
                 _play_lock, since_start, _start_seek_offset>>

\* AudioSourceManager.set_volume (49-56): the restart is a play() coroutine that is
\* only scheduled here
set_volume(type, volume) ==
  /\ ~Hung
  /\ volumes' = [volumes EXCEPT ![type] = volume]
  /\ IF current_type = type /\ voice.conn # "none" /\ is_playing
       THEN /\ Len(cmds) < MaxCmds
            /\ voice' = StopVoice
            /\ live' = StopLive
            /\ tasks' = StopTasks(tasks)
            /\ cmds' = Append(cmds, Cmd("play_new", 0, current_track, current_type, 0, 0, 0))
       ELSE UNCHANGED <<voice, live, tasks, cmds>>
  /\ UNCHANGED <<elsewhere, script, reply, current_track, current_type, loop_flags, fade_config, _play_task,
                 _play_lock, since_start, _start_seek_offset>>

\* AudioSourceManager.set_loop (58-63)
set_loop(type, enable) ==
  /\ ~Hung
  /\ loop_flags' = [loop_flags EXCEPT ![type] = enable]
  /\ tasks' = IF ~enable /\ TaskActive THEN cancel(tasks, _play_task) ELSE tasks
  /\ UNCHANGED <<elsewhere, script, reply, current_track, current_type, volumes, fade_config, _play_task, _play_lock,
                 since_start, _start_seek_offset, voice, live, cmds>>

\* an optional argument: the empty set is None, {x} is the value x
Given(opt, old) == IF opt = {} THEN old ELSE CHOOSE x \in opt : TRUE

\* a set_fade_enabled that switches the fades of every category
set_fade_enabled_everywhere(type, fade_in_enabled, fade_out_enabled) ==
  /\ ~Hung
  /\ fade_config' = [c \in Types |->
        [fade_config[c] EXCEPT !.in_enabled = Given(fade_in_enabled, @),
                               !.out_enabled = Given(fade_out_enabled, @)]]
  /\ UNCHANGED <<elsewhere, script, reply, current_track, current_type, loop_flags, volumes, _play_task,
                 _play_lock, since_start, _start_seek_offset, voice, live, tasks, cmds>>

\* AudioSourceManager.set_fade_enabled (326-335)
set_fade_enabled(type, fade_in_enabled, fade_out_enabled) ==
  /\ ~Hung
  /\ fade_config' = [fade_config EXCEPT
        ![type] = [@ EXCEPT !.in_enabled = Given(fade_in_enabled, @),
                            !.out_enabled = Given(fade_out_enabled, @)]]
  /\ UNCHANGED <<elsewhere, script, reply, current_track, current_type, loop_flags, volumes, _play_task,
                 _play_lock, since_start, _start_seek_offset, voice, live, tasks, cmds>>

\* AudioSourceManager.set_fade_duration (337-345)
set_fade_duration(type, in_dur, out_dur) ==
  /\ ~Hung
  /\ fade_config' = [fade_config EXCEPT
        ![type] = [@ EXCEPT !.in_dur = Given(in_dur, @),
                            !.out_dur = Given(out_dur, @)]]
  /\ UNCHANGED <<elsewhere, script, reply, current_track, current_type, loop_flags, volumes, _play_task,
                 _play_lock, since_start, _start_seek_offset, voice, live, tasks, cmds>>

\* AudioSourceManager.get_fade_settings (347-348): the value it returns
get_fade_settings(type) == fade_config[type]

\* a call of get_fade_settings: it reads and returns, nothing is written
read_fade_settings(type) ==
  /\ ~Hung
  /\ get_fade_settings(type) \in [in_enabled : BOOLEAN, out_enabled : BOOLEAN,
                                  in_dur : Nat, out_dur : Nat]
  /\ UNCHANGED vars

\* AudioSourceManager.play (65-89) called with fade_in and fade_out given
play_with_fades(path, type, fi, fo) ==
  /\ ~Hung
  /\ play(is_connected, path, type, fi, fo, cmds)
  /\ UNCHANGED <<elsewhere, script, reply, voice, loop_flags, volumes, fade_config, _play_lock, since_start,
                 _start_seek_offset, live>>

\* AudioSourceManager.stop (234-243), written as the value it gives each field
stop_voice == IF voice.conn # "none" /\ is_playing THEN StopVoice ELSE voice
stop_live == IF voice.conn # "none" /\ is_playing THEN StopLive ELSE live
stop_tasks_uncancelled == IF voice.conn # "none" /\ is_playing THEN StopTasks(tasks) ELSE tasks
stop_tasks ==
  LET ts == IF voice.conn # "none" /\ is_playing THEN StopTasks(tasks) ELSE tasks
  IN IF TaskActive THEN cancel(ts, _play_task) ELSE ts
stop_track == None
stop_type == None

stop ==
  /\ ~Hung
  /\ voice' = stop_voice
  /\ live' = stop_live
  /\ tasks' = stop_tasks
  /\ current_track' = stop_track
  /\ current_type' = stop_type
  /\ UNCHANGED <<elsewhere, script, reply, loop_flags, volumes, fade_config, _play_task, _play_lock, since_start,
                 _start_seek_offset, cmds>>

\* a pause that also cancels the playback task
pause_cancelling ==
  /\ ~Hung
  /\ voice.conn # "none" /\ is_playing
  /\ voice' = [voice EXCEPT !.paused = TRUE]
  /\ tasks' = IF TaskActive THEN cancel(tasks, _play_task) ELSE tasks
  /\ UNCHANGED <<elsewhere, script, reply, current_track, current_type, loop_flags, volumes, fade_config, _play_task,
                 _play_lock, since_start, _start_seek_offset, live, cmds>>

\* AudioSourceManager.pause (245-248)
pause ==
  /\ ~Hung
  /\ voice.conn # "none" /\ is_playing
  /\ voice' = [voice EXCEPT !.paused = TRUE]
  /\ UNCHANGED <<elsewhere, script, reply, current_track, current_type, loop_flags, volumes, fade_config, _play_task,
                 _play_lock, since_start, _start_seek_offset, live, tasks, cmds>>

\* AudioSourceManager.resume (250-253)
resume ==
  /\ ~Hung
  /\ voice.conn # "none" /\ is_paused
  /\ voice' = [voice EXCEPT !.paused = FALSE]
  /\ UNCHANGED <<elsewhere, script, reply, current_track, current_type, loop_flags, volumes, fade_config, _play_task,
                 _play_lock, since_start, _start_seek_offset, live, tasks, cmds>>

\* the answers of the command handlers (commands.py 86, 89, 93, 96, 100, 103)
NothingToPauseReply == "nothing to pause"
PausedReply == "paused"
NothingToResumeReply == "nothing to resume"
ResumedReply == "resumed"
NothingToStopReply == "nothing to stop"
StoppedReply == "stopped"

\* a handler that never refuses
NeverRefuse == FALSE

\* `not player or not player.voice or not player.voice.is_playing()` (commands.py 85)
NothingToPause == ~(voice.conn # "none" /\ is_playing)

\* `not player or not player.voice or not player.voice.is_paused()` (commands.py 92)
NothingToResume == ~(voice.conn # "none" /\ is_paused)

\* pause_command (commands.py 84-89) with AudioSourceManager.pause (245-248)
pause_command ==
  /\ ~Hung
  /\ IF NothingToPause
       THEN /\ reply' = NothingToPauseReply
            /\ UNCHANGED voice
       ELSE /\ voice' = IF voice.conn # "none" /\ is_playing
                          THEN [voice EXCEPT !.paused = TRUE] ELSE voice
            /\ reply' = PausedReply
  /\ UNCHANGED <<elsewhere, script, current_track, current_type, loop_flags, volumes, fade_config, _play_task,
                 _play_lock, since_start, _start_seek_offset, live, tasks, cmds>>

\* resume_command (commands.py 91-96) with AudioSourceManager.resume (250-253)
resume_command ==
  /\ ~Hung
  /\ IF NothingToResume
       THEN /\ reply' = NothingToResumeReply
            /\ UNCHANGED voice
       ELSE /\ voice' = IF voice.conn # "none" /\ is_paused
                          THEN [voice EXCEPT !.paused = FALSE] ELSE voice
            /\ reply' = ResumedReply
  /\ UNCHANGED <<elsewhere, script, current_track, current_type, loop_flags, volumes, fade_config, _play_task,
                 _play_lock, since_start, _start_seek_offset, live, tasks, cmds>>

\* stop_command (commands.py 98-103) with AudioSourceManager.stop (234-243)
stop_command ==
  /\ ~Hung
  /\ IF ~(voice.conn # "none" /\ is_playing)
       THEN /\ reply' = NothingToStopReply
            /\ UNCHANGED <<voice, live, tasks, current_track, current_type>>
       ELSE /\ voice' = stop_voice
            /\ live' = stop_live
            /\ tasks' = stop_tasks
            /\ current_track' = stop_track
            /\ current_type' = stop_type
            /\ reply' = StoppedReply
  /\ UNCHANGED <<elsewhere, script, loop_flags, volumes, fade_config, _play_task, _play_lock, since_start,
                 _start_seek_offset, cmds>>

\* `await player.voice.disconnect()` of leave (music_cog.py 67-68): the client stops
\* its player and drops the connection before it suspends; ts, rest are the tasks
\* and parked coroutines as the call finds them
Disconnect(ts, rest) ==
  IF voice.conn = "connected"
    THEN /\ voice' = [conn |-> "disconnected", player |-> 0, paused |-> FALSE]
         /\ live' = StopLive
         /\ tasks' = StopTasks(ts)
         /\ cmds' = Append(rest, Cmd("disconnect", 0, None, None, 0, 0, 0))
    ELSE /\ voice' = [conn |-> "none", player |-> 0, paused |-> FALSE]
         /\ tasks' = ts
         /\ cmds' = rest
         /\ UNCHANGED live

\* MusicCog.leave (music_cog.py 62-71) with cancel_loop_task (audio.py 255-262)
leave ==
  /\ ~Hung
  /\ voice.conn # "none"
  /\ IF TaskActive
       THEN /\ CancelAndAwait(cmds, Cmd("leave", _play_task, None, None, 0, 0, 0))
            /\ UNCHANGED <<voice, live>>
       ELSE /\ Len(cmds) < MaxCmds
            /\ Disconnect(tasks, cmds)
            /\ UNCHANGED _play_task
  /\ UNCHANGED <<elsewhere, script, reply, current_track, current_type, loop_flags, volumes, fade_config,
                 _play_lock, since_start, _start_seek_offset>>


\* ------------------------------------------------------------------ resumptions
\* `await self._play_task` returns: the awaited task is done; the coroutines that
\* await the same task are woken in the order they began to wait
Awaited(i, op) ==
  /\ ~Hung
  /\ cmds[i].op = op
  /\ done(cmds[i].wait)
  /\ \A j \in 1..(i - 1) : cmds[j].wait # cmds[i].wait

\* play after the await (87-89)
ResumePlay(i) ==
  /\ Awaited(i, "play")
  /\ Create(tasks, cmds[i].path, 0, cmds[i].fi, cmds[i].fo)
  /\ cmds' = RemoveAt(cmds, i)
  /\ UNCHANGED <<elsewhere, script, reply, current_track, current_type, loop_flags, volumes, fade_config,
                 _play_lock, since_start, _start_seek_offset, voice, live>>

\* seek after the await (216-221)
ResumeSeek(i) ==
  /\ Awaited(i, "seek")
  /\ Create(tasks, current_track, cmds[i].pos, 0, SeekFadeOut)
  /\ cmds' = RemoveAt(cmds, i)
  /\ UNCHANGED <<elsewhere, script, reply, current_track, current_type, loop_flags, volumes, fade_config,
                 _play_lock, since_start, _start_seek_offset, voice, live>>

\* fade_out after the await (303-305)
ResumeFadeOut(i) ==
  /\ Awaited(i, "fade_out")
  /\ Create(tasks, current_track, cmds[i].pos, 0, cmds[i].fo)
  /\ cmds' = RemoveAt(cmds, i)
  /\ UNCHANGED <<elsewhere, script, reply, current_track, current_type, loop_flags, volumes, fade_config,
                 _play_lock, since_start, _start_seek_offset, voice, live>>

\* restart_with_fade_in after the await (320-322)
ResumeRestart(i) ==
  /\ Awaited(i, "restart")
  /\ Create(tasks, current_track, 0, cmds[i].fi, 0)
  /\ cmds' = RemoveAt(cmds, i)
  /\ UNCHANGED <<elsewhere, script, reply, current_track, current_type, loop_flags, volumes, fade_config,
                 _play_lock, since_start, _start_seek_offset, voice, live>>

\* cancel_loop_task after the await (262), then leave goes on to disconnect
ResumeLeave(i) ==
  /\ Awaited(i, "leave")
  /\ _play_task' = 0
  /\ Disconnect(tasks, RemoveAt(cmds, i))
  /\ UNCHANGED <<elsewhere, script, reply, current_track, current_type, loop_flags, volumes, fade_config,
                 _play_lock, since_start, _start_seek_offset>>

\* voice.disconnect() returns: `player.voice = None` (music_cog.py 68)
Disconnected(i) ==
  /\ ~Hung
  /\ cmds[i].op = "disconnect"
  /\ voice' = [conn |-> "none", player |-> 0, paused |-> FALSE]
  /\ cmds' = RemoveAt(cmds, i)
  /\ UNCHANGED <<elsewhere, script, reply, current_track, current_type, loop_flags, volumes, fade_config, _play_task,
                 _play_lock, since_start, _start_seek_offset, live, tasks>>

\* voice_channel.connect() returns: `player.voice = ...` (functions.py 25), and
\* play_command goes on to player.play
Connected(i) ==
  /\ ~Hung
  /\ cmds[i].op = "connect"
  /\ voice' = [conn |-> "connected", player |-> 0, paused |-> FALSE]
  /\ play(TRUE, cmds[i].path, cmds[i].type, 0, 0, RemoveAt(cmds, i))
  /\ UNCHANGED <<elsewhere, script, reply, loop_flags, volumes, fade_config, _play_lock, since_start,
                 _start_seek_offset, live>>

\* the play() coroutine scheduled by set_volume starts running
StartPlay(i) ==
  /\ ~Hung
  /\ cmds[i].op = "play_new"
  /\ play(is_connected, cmds[i].path, cmds[i].type, 0, 0, RemoveAt(cmds, i))
  /\ UNCHANGED <<elsewhere, script, reply, voice, loop_flags, volumes, fade_config, _play_lock, since_start,
                 _start_seek_offset, live>>

\* ------------------------------------------------------------------ specification
Playback ==
  \/ \E p \in PlayPaths, c \in CmdTypes : PlayCommand(p, c)
  \/ \E pos \in SeekArgs : seek(pos)
  \/ \E d \in FadeArgs : fade_out(d)
  \/ \E d \in FadeArgs : restart_with_fade_in(d)
  \/ \E c \in CmdTypes, v \in VolumeArgs : set_volume(c, v)
  \/ \E c \in CmdTypes, e \in BOOLEAN : set_loop(c, e)
  \/ stop
  \/ leave
  \/ \E t \in TaskIds : TaskCancelled(t)
  \/ \E t \in TaskIds : TaskStart(t)
  \/ \E t \in TaskIds : TaskLocked(t)
  \/ \E t \in TaskIds : TaskWake(t)
  \/ \E i \in 1..Len(cmds) : ResumePlay(i)
  \/ \E i \in 1..Len(cmds) : ResumeSeek(i)
  \/ \E i \in 1..Len(cmds) : ResumeFadeOut(i)
  \/ \E i \in 1..Len(cmds) : ResumeRestart(i)
  \/ \E i \in 1..Len(cmds) : ResumeLeave(i)
  \/ \E i \in 1..Len(cmds) : Disconnected(i)
  \/ \E i \in 1..Len(cmds) : Connected(i)
  \/ \E i \in 1..Len(cmds) : StartPlay(i)
  \/ \E err \in BOOLEAN : SourceEnd(err)

\* every command, in any order, at any time
Next == Playback \/ pause \/ resume

Spec == Init /\ [][Next]_vars

\* the same program when nobody presses pause
SpecPlayback == Init /\ [][Playback]_vars

\* the same program with the clock of get_current_position running
NextClock == Next \/ Tick

SpecClock == Init /\ [][NextClock]_vars

\* ------------------------------------------------------------------ scenario
\* play(a, music) at once followed by play(b, music), on a guild where nothing or the
\* track x is playing. script counts the two calls; once both are made no further
\* command arrives and the tasks run on.

\* before the two calls: somebody may have started x
PriorPlay ==
  /\ script = 0
  /\ tasks = <<>> /\ cmds = <<>>
  /\ play_command("x", "music")
  /\ UNCHANGED <<elsewhere, script, reply>>

\* before the two calls: the loop flag of music may have been set
PriorLoop(enable) ==
  /\ script = 0
  /\ set_loop("music", enable)

\* the first call
PlayA ==
  /\ script = 0
  /\ is_connected
  /\ cmds = <<>>
  /\ play_command("a", "music")
  /\ script' = 1
  /\ UNCHANGED <<elsewhere, reply>>

\* play(a) has not returned, or has only just returned: its task has not run yet
FirstPlayPending ==
  \/ \E i \in 1..Len(cmds) : cmds[i].op = "play" /\ cmds[i].path = "a"
  \/ tasks # <<>> /\ tasks[Len(tasks)].st = "new" /\ tasks[Len(tasks)].path = "a"

\* the second call
PlayB ==
  /\ script = 1
  /\ FirstPlayPending
  /\ play_command("b", "music")
  /\ script' = 2
  /\ UNCHANGED <<elsewhere, reply>>

Double ==
  \/ PriorPlay
  \/ \E e \in BOOLEAN : PriorLoop(e)
  \/ PlayA
  \/ PlayB
  \/ \E t \in TaskIds : TaskCancelled(t)
  \/ \E t \in TaskIds : TaskStart(t)
  \/ \E t \in TaskIds : TaskLocked(t)
  \/ \E t \in TaskIds : TaskWake(t)
  \/ \E i \in 1..Len(cmds) : ResumePlay(i)
  \/ \E i \in 1..Len(cmds) : Connected(i)
  \/ \E err \in BOOLEAN : SourceEnd(err)

SpecDouble == Init /\ [][Double]_vars

\* ------------------------------------------------------------------ loop scenario
\* the steps playback tasks and the player thread take on their own
Tasks ==
  \/ \E t \in TaskIds : TaskCancelled(t)
  \/ \E t \in TaskIds : TaskStart(t)
  \/ \E t \in TaskIds : TaskLocked(t)
  \/ \E t \in TaskIds : TaskWake(t)
  \/ \E err \in BOOLEAN : SourceEnd(err)

\* tracks of two categories are played, and set_loop is called for either category
LoopTypes == {"music", "ambient"}

Loop ==
  \/ \E c \in LoopTypes : PlayCommand("a", c)
  \/ \E c \in LoopTypes, e \in BOOLEAN : set_loop(c, e)
  \/ \E i \in 1..Len(cmds) : ResumePlay(i)
  \/ \E i \in 1..Len(cmds) : Connected(i)
  \/ Tasks

SpecLoop == Init /\ [][Loop]_vars

\* ------------------------------------------------------------------ volume scenario
\* every command has taken effect: no coroutine is parked, no task is waiting to
\* start or to be cancelled
Quiet ==
  /\ cmds = <<>>
  /\ \A t \in TaskIds : tasks[t].st # "new" /\ ~tasks[t].cancel

\* one user who waits for a command to take effect before the next one: a music
\* track is played, sought and looped, and the volume of either category is changed
VolumeLevels == {1, 2}

QuietPlay == Quiet /\ PlayCommand("a", "music")
QuietSeek == Quiet /\ seek(1)
QuietLoop(enable) == Quiet /\ set_loop("music", enable)
QuietVolume(type, volume) == Quiet /\ set_volume(type, volume)

Volume ==
  \/ QuietPlay
  \/ QuietSeek
  \/ \E e \in BOOLEAN : QuietLoop(e)
  \/ \E c \in LoopTypes, v \in VolumeLevels : QuietVolume(c, v)
  \/ \E i \in 1..Len(cmds) : StartPlay(i)
  \/ \E i \in 1..Len(cmds) : ResumePlay(i)
  \/ \E i \in 1..Len(cmds) : ResumeSeek(i)
  \/ \E i \in 1..Len(cmds) : Connected(i)
  \/ \E t \in TaskIds : TaskCancelled(t)
  \/ \E t \in TaskIds : TaskStart(t)
  \/ \E t \in TaskIds : TaskWake(t)
  \/ \E err \in BOOLEAN : SourceEnd(err)

SpecVolume == Init /\ [][Volume]_vars

\* ------------------------------------------------------------------ seek scenario
\* a track of 2 seconds is played and sought to positions inside and past its end
SeekPositions == {1, 2, 3}

Seeking ==
  \/ PlayCommand("a", "music")
  \/ \E pos \in SeekPositions : seek(pos)
  \/ \E i \in 1..Len(cmds) : ResumePlay(i)
  \/ \E i \in 1..Len(cmds) : ResumeSeek(i)
  \/ \E i \in 1..Len(cmds) : Connected(i)
  \/ Tasks

SpecSeek == Init /\ [][Seeking]_vars

\* ------------------------------------------------------------------ fade scenario
\* a track of 2 seconds plays while the clock runs, and fade_out is asked for with a
\* duration shorter and longer than what is left of it
FadeLengths == {1, 3}

Fading ==
  \/ PlayCommand("a", "music")
  \/ \E d \in FadeLengths : fade_out(d)
  \/ \E i \in 1..Len(cmds) : ResumePlay(i)
  \/ \E i \in 1..Len(cmds) : ResumeFadeOut(i)
  \/ \E i \in 1..Len(cmds) : Connected(i)
  \/ Tick
  \/ Tasks

SpecFade == Init /\ [][Fading]_vars

\* ------------------------------------------------------------------ fade settings scenario
\* one user who waits for a command to take effect before the next one: the fade
\* settings of music are switched and changed, and tracks of two categories are
\* played with and without fade durations of their own
Switches == {{}, {TRUE}, {FALSE}}
InDurations == {{}, {4}}
OutDurations == {{}, {4}}
PlayFades == {0, 1}

QuietFadeEnabled(fade_in_enabled, fade_out_enabled) ==
  Quiet /\ set_fade_enabled("music", fade_in_enabled, fade_out_enabled)
QuietFadeDuration(in_dur, out_dur) ==
  Quiet /\ set_fade_duration("music", in_dur, out_dur)
QuietPlayFades(type, fi, fo) ==
  Quiet /\ play_with_fades("a", type, fi, fo)

FadeSettings ==
  \/ \E i \in Switches, o \in Switches : QuietFadeEnabled(i, o)
  \/ \E i \in InDurations, o \in OutDurations : QuietFadeDuration(i, o)
  \/ \E c \in LoopTypes, fi \in PlayFades, fo \in PlayFades : QuietPlayFades(c, fi, fo)
  \/ \E c \in Types : read_fade_settings(c)
  \/ \E i \in 1..Len(cmds) : ResumePlay(i)
  \/ \E t \in TaskIds : TaskCancelled(t)
  \/ \E t \in TaskIds : TaskStart(t)
  \/ \E t \in TaskIds : TaskWake(t)
  \/ \E err \in BOOLEAN : SourceEnd(err)

SpecFadeSettings == Init /\ [][FadeSettings]_vars

\* ------------------------------------------------------------------ pause scenario
\* the slash commands play, pause, resume and stop of one guild, in any order
Pausing ==
  \/ PlayCommand("a", "music")
  \/ pause_command
  \/ resume_command
  \/ stop_command
  \/ \E i \in 1..Len(cmds) : ResumePlay(i)
  \/ \E i \in 1..Len(cmds) : Connected(i)
  \/ Tasks

SpecPause == Init /\ [][Pausing]_vars

\* ------------------------------------------------------------------ launch scenario
\* one user who waits for a command to take effect before the next one: the track
\* a, and the track u that ffprobe gives no duration for, are played in two
\* categories, sought inside and past the end, faded out, restarted with a fade-in,
\* and the volume of music is changed, while the clock runs
LaunchPaths == {"a", "u"}
LaunchSeeks == {1, 3}
RestartFades == {2}

QuietLaunch(path, type) == Quiet /\ PlayCommand(path, type)
QuietSeekTo(position) == Quiet /\ seek(position)
QuietFadeOut(fade_duration) == Quiet /\ fade_out(fade_duration)
QuietRestart(fade_duration) == Quiet /\ restart_with_fade_in(fade_duration)

Launching ==
  \/ \E p \in LaunchPaths, c \in LoopTypes : QuietLaunch(p, c)
  \/ \E pos \in LaunchSeeks : QuietSeekTo(pos)
  \/ \E d \in FadeLengths : QuietFadeOut(d)
  \/ \E d \in RestartFades : QuietRestart(d)
  \/ \E v \in VolumeLevels : QuietVolume("music", v)
  \/ Tick
  \/ \E i \in 1..Len(cmds) : StartPlay(i)
  \/ \E i \in 1..Len(cmds) : ResumePlay(i)
  \/ \E i \in 1..Len(cmds) : ResumeSeek(i)
  \/ \E i \in 1..Len(cmds) : ResumeFadeOut(i)
  \/ \E i \in 1..Len(cmds) : ResumeRestart(i)
  \/ \E i \in 1..Len(cmds) : Connected(i)
  \/ \E t \in TaskIds : TaskCancelled(t)
  \/ \E t \in TaskIds : TaskStart(t)
  \/ \E t \in TaskIds : TaskWake(t)
  \/ \E err \in BOOLEAN : SourceEnd(err)

SpecLaunch == Init /\ [][Launching]_vars

\* ------------------------------------------------------------------ leave scenario
\* one user who waits for a command to take effect before the next one: a track is
\* played, looped and sought, and the bot is told to leave the channel
QuietLeave == Quiet /\ leave

Leaving ==
  \/ QuietPlay
  \/ QuietSeek
  \/ \E e \in BOOLEAN : QuietLoop(e)
  \/ QuietLeave
  \/ \E i \in 1..Len(cmds) : ResumePlay(i)
  \/ \E i \in 1..Len(cmds) : ResumeSeek(i)
  \/ \E i \in 1..Len(cmds) : ResumeLeave(i)
  \/ \E i \in 1..Len(cmds) : Disconnected(i)
  \/ \E i \in 1..Len(cmds) : Connected(i)
  \/ \E t \in TaskIds : TaskCancelled(t)
  \/ \E t \in TaskIds : TaskStart(t)
  \/ \E t \in TaskIds : TaskWake(t)
  \/ \E err \in BOOLEAN : SourceEnd(err)

SpecLeave == Init /\ [][Leaving]_vars

\* the event loop runs every task that is ready to run, and every coroutine whose
\* await has returned
Scheduling ==
  /\ WF_vars(\E t \in TaskIds : TaskCancelled(t))
  /\ WF_vars(\E t \in TaskIds : TaskStart(t))
  /\ WF_vars(\E t \in TaskIds : TaskWake(t))
  /\ WF_vars(\E i \in 1..Len(cmds) : ResumePlay(i))
  /\ WF_vars(\E i \in 1..Len(cmds) : ResumeSeek(i))
  /\ WF_vars(\E i \in 1..Len(cmds) : ResumeLeave(i))
  /\ WF_vars(\E i \in 1..Len(cmds) : Disconnected(i))
  /\ WF_vars(\E i \in 1..Len(cmds) : Connected(i))

SpecLeaveFair == SpecLeave /\ Scheduling

\* ------------------------------------------------------------------ leave race scenario
\* leave is called while play and seek calls are in flight: once leave has started,
\* no new command is made until it has returned
LeaveInProgress == \E i \in 1..Len(cmds) : cmds[i].op \in {"leave", "disconnect"}

PlayBeforeLeave == ~LeaveInProgress /\ PlayCommand("a", "music")
SeekBeforeLeave == ~LeaveInProgress /\ seek(1)
LeaveOnce == ~LeaveInProgress /\ leave

LeaveRace ==
  \/ PlayBeforeLeave
  \/ SeekBeforeLeave
  \/ LeaveOnce
  \/ \E i \in 1..Len(cmds) : ResumePlay(i)
  \/ \E i \in 1..Len(cmds) : ResumeSeek(i)
  \/ \E i \in 1..Len(cmds) : ResumeLeave(i)
  \/ \E i \in 1..Len(cmds) : Disconnected(i)
  \/ \E i \in 1..Len(cmds) : Connected(i)
  \/ Tasks

SpecLeaveRace == Init /\ [][LeaveRace]_vars

\* ------------------------------------------------------------------ mixer
\* AudioMixer.get_track_duration (mix.py 20-41): ffprobe's answer, 0.0 when it fails
track_duration(file_path) == get_track_duration(file_path)

\* the ffmpeg command of AudioMixer.mix_tracks (60-87): input 0 is the primary track,
\* which sets the length of the mix (amix duration=first), input 1 is looped (aloop)
mix_tracks(music_path, ambient_path, music_vol, ambient_vol) ==
  LET dur_music == track_duration(music_path)
      dur_ambient == track_duration(ambient_path)
  IN IF dur_music >= dur_ambient
       THEN [long_path |-> music_path, short_path |-> ambient_path,
             long_vol |-> music_vol, short_vol |-> ambient_vol]
       ELSE [long_path |-> ambient_path, short_path |-> music_path,
             long_vol |-> ambient_vol, short_vol |-> music_vol]

\* a call of mix_tracks with the arguments at hand builds its command
MixTracks ==
  /\ mixer.command = {}
  /\ mixer' = [mixer EXCEPT !.command = {mix_tracks(mixer.music_path, mixer.ambient_path,
                                                    mixer.music_vol, mixer.ambient_vol)}]
  /\ UNCHANGED <<current_track, current_type, loop_flags, volumes, fade_config, _play_task,
                 _play_lock, since_start, _start_seek_offset, voice, live, tasks, cmds,
                 script, reply, guild_players, ffprobe, _palette_loop_enabled>>

\* the same two tracks handed over the other way round, each with its own volume
MixSwapped ==
  /\ mixer.command # {}
  /\ mixer' = [music_path |-> mixer.ambient_path, ambient_path |-> mixer.music_path,
               music_vol |-> mixer.ambient_vol, ambient_vol |-> mixer.music_vol,
               command |-> {}]
  /\ UNCHANGED <<current_track, current_type, loop_flags, volumes, fade_config, _play_task,
                 _play_lock, since_start, _start_seek_offset, voice, live, tasks, cmds,
                 script, reply, guild_players, ffprobe, _palette_loop_enabled>>

\* any two different tracks of the collection, any two volumes
InitMixer ==
  /\ InitPlayer
  /\ mixer \in {[music_path |-> a, ambient_path |-> b, music_vol |-> va, ambient_vol |-> vb,
                  command |-> {}] : a \in Paths, b \in Paths, va \in MixVolumes,
                                    vb \in MixVolumes}
  /\ mixer.music_path # mixer.ambient_path
  /\ guild_players = [g \in Guilds |-> {}]
  /\ ffprobe = [cache |-> <<>>, runs |-> [p \in Paths |-> 0]]

Mixing ==
  \/ MixTracks
  \/ MixSwapped

SpecMixer == InitMixer /\ [][Mixing]_vars

\* ------------------------------------------------------------------ mix command
MixFiles == {"a", "gone"}                        \* file names given to /mix
MixOutput == "x"                                 \* music/mixed/<user>/<mix_name>.mp3
ExitCodes == {0, 1}                              \* of the ffmpeg process
Diagnostics == {"invalid data", "no space"}      \* what ffmpeg wrote to stderr

\* the answers of MusicCog.mix (music_cog.py 120, 132, 141, 147)
FilesMissingReply == "files not found"
MixFailedReply(e) == "mix failed: " \o e
NotInVoiceReply == "not in a voice channel"
MixPlayingReply == "playing mix"

\* what mix_tracks raises after ffmpeg has exited (mix.py 93-96): nothing on exit
\* code 0, else a RuntimeError whose text ends with the captured stderr
RuntimeError(returncode, stderr) ==
  IF returncode # 0 THEN {"mix error: " \o stderr} ELSE {}

\* MusicCog.mix (music_cog.py 103-130) up to `await asyncio.to_thread(mix_tracks, ...)`
mix(music_file, ambient_file) ==
  /\ ~Hung
  /\ IF ~isfile(music_file) \/ ~isfile(ambient_file)
       THEN /\ reply' = FilesMissingReply
            /\ UNCHANGED cmds
       ELSE /\ Len(cmds) < MaxCmds
            /\ cmds' = Append(cmds, Cmd("mix", 0, MixOutput, "mixed", 0, 0, 0))
            /\ UNCHANGED reply
  /\ UNCHANGED <<elsewhere, script, current_track, current_type, loop_flags, volumes,
                 fade_config, _play_task, _play_lock, since_start, _start_seek_offset,
                 voice, live, tasks>>

\* a mix command that plays the output whatever the exit code of ffmpeg
MixDone_unchecked(i, returncode, stderr, in_voice) ==
  /\ ~Hung
  /\ cmds[i].op = "mix"
  /\ is_connected
  /\ reply' = MixPlayingReply
  /\ play(TRUE, cmds[i].path, "mixed", 0, 0, RemoveAt(cmds, i))
  /\ UNCHANGED <<elsewhere, script, voice, loop_flags, volumes, fade_config, _play_lock,
                 since_start, _start_seek_offset, live>>

\* the mixer thread is done and MusicCog.mix goes on (131-149): it reports what
\* mix_tracks raised and returns; else, with the author in a voice channel, it
\* connects where needed, reports the mix and plays it as category "mixed"
MixDone(i, returncode, stderr, in_voice) ==
  /\ ~Hung
  /\ cmds[i].op = "mix"
  /\ IF RuntimeError(returncode, stderr) # {}
       THEN /\ reply' = MixFailedReply(CHOOSE e \in RuntimeError(returncode, stderr) : TRUE)
            /\ cmds' = RemoveAt(cmds, i)
            /\ UNCHANGED <<current_track, current_type, tasks, _play_task, voice>>
       ELSE IF ~in_voice
         THEN /\ reply' = NotInVoiceReply
              /\ cmds' = RemoveAt(cmds, i)
              /\ UNCHANGED <<current_track, current_type, tasks, _play_task, voice>>
         ELSE IF is_connected
           THEN /\ reply' = MixPlayingReply
                /\ play(TRUE, cmds[i].path, "mixed", 0, 0, RemoveAt(cmds, i))
                /\ UNCHANGED voice
           ELSE \* voice_channel.connect(); a second connect of the guild is refused
                /\ \A j \in 1..Len(cmds) :
                      cmds[j].op \notin {"connect", "connect_mix", "disconnect"}
                /\ cmds' = [cmds EXCEPT ![i].op = "connect_mix"]
                /\ UNCHANGED <<reply, current_track, current_type, tasks, _play_task, voice>>
  /\ UNCHANGED <<elsewhere, script, loop_flags, volumes, fade_config, _play_lock,
                 since_start, _start_seek_offset, live>>

\* voice_channel.connect() returns to MusicCog.mix (145-149)
ConnectedMix(i) ==
  /\ ~Hung
  /\ cmds[i].op = "connect_mix"
  /\ voice' = [conn |-> "connected", player |-> 0, paused |-> FALSE]
  /\ reply' = MixPlayingReply
  /\ play(TRUE, cmds[i].path, "mixed", 0, 0, RemoveAt(cmds, i))
  /\ UNCHANGED <<elsewhere, script, loop_flags, volumes, fade_config, _play_lock,
                 since_start, _start_seek_offset, live>>

\* a music track is played and mixes are made, in any interleaving
MixCommand ==
  \/ PlayCommand("a", "music")
  \/ \E m \in MixFiles, a \in MixFiles : mix(m, a)
  \/ \E i \in 1..Len(cmds), rc \in ExitCodes, e \in Diagnostics, v \in BOOLEAN :
        MixDone(i, rc, e, v)
  \/ \E i \in 1..Len(cmds) : ConnectedMix(i)
  \/ \E i \in 1..Len(cmds) : Connected(i)
  \/ \E i \in 1..Len(cmds) : ResumePlay(i)
  \/ Tasks

SpecMixCommand == Init /\ [][MixCommand]_vars

\* ------------------------------------------------------------------ two guilds
\* The managers of two guilds as the handlers reach them through bot.guild_players.
\* A manager is a record of the fields of __init__; of its task this scenario keeps
\* the number (_play_task, 0 = None), whether it is still running and whether it
\* was cancelled, and the coroutines suspended in an await of this manager (pending).
GuildVolumes == {1, 2}

\* AudioSourceManager(guild_id) (audio.py 27-47): every manager gets dictionaries of
\* its own
AudioSourceManager(guild_id) ==
  [guild_id |-> guild_id, voice |-> "none", paused |-> FALSE,
   current_track |-> None, current_type |-> None,
   loop_flags |-> [c \in Types |-> FALSE],
   volumes |-> [c \in Types |-> 1],
   fade_config |-> [c \in Types |->
        IF c = "ambient"
          THEN [in_enabled |-> FALSE, out_enabled |-> FALSE, in_dur |-> 2, out_dur |-> 2]
          ELSE [in_enabled |-> FALSE, out_enabled |-> TRUE, in_dur |-> 3, out_dur |-> 5]],
   _play_task |-> 0, running |-> FALSE, cancelled |-> FALSE, pending |-> <<>>]

\* handlers that all reach for the manager of the same guild
first_guild(guild_id) == CHOOSE g \in Guilds : \A h \in Guilds : g <= h

\* the key a handler looks the manager up with: inter.guild_id (commands.py 40-42,
\* music_cog.py 39-230)
guild_key(guild_id) == guild_id

\* self.bot.guild_players.get(inter.guild_id): `if not player`, and the manager
HasManager(g) == guild_players[guild_key(g)] # {}
Manager(g) == CHOOSE m \in guild_players[guild_key(g)] : TRUE

\* the handler has changed the manager it holds, and nothing else
Store(g, m) ==
  /\ guild_players' = [guild_players EXCEPT ![guild_key(g)] = {m}]
  /\ UNCHANGED <<current_track, current_type, loop_flags, volumes, fade_config, _play_task,
                 _play_lock, since_start, _start_seek_offset, voice, live, tasks, cmds,
                 script, reply, mixer, ffprobe, _palette_loop_enabled>>

\* `self._play_task and not self._play_task.done()`, voice.is_playing()
m_active(m) == m._play_task # 0 /\ m.running
m_playing(m) == m.voice = "connected" /\ m.running /\ ~m.cancelled /\ ~m.paused

\* self._play_task = asyncio.create_task(...)
m_create(m) == [m EXCEPT !._play_task = @ + 1, !.running = TRUE, !.cancelled = FALSE]

\* cancel the active task and suspend in `await self._play_task`
m_cancel_await(m, op) == [m EXCEPT !.cancelled = TRUE, !.pending = Append(@, op)]

\* AudioSourceManager.play (65-89) on manager m, up to its first suspension
m_play(m, path, type) ==
  IF m.voice # "connected"
    THEN m
    ELSE IF m_active(m)
      THEN m_cancel_await([m EXCEPT !.current_track = path, !.current_type = type], "play")
      ELSE m_create([m EXCEPT !.current_track = path, !.current_type = type])

\* play_command (commands.py 40-69): the manager of the guild is created at its
\* first play; ensure_voice connects where needed
GuildPlay(g, path, type) ==
  LET m == IF HasManager(g) THEN Manager(g) ELSE AudioSourceManager(g)
  IN /\ m.pending = <<>>
     /\ m._play_task < MaxGuildTasks
     /\ IF m.voice = "connected"
          THEN Store(g, m_play(m, path, type))
          ELSE Store(g, [m EXCEPT !.pending = <<"connect">>])

\* voice_channel.connect() returns (functions.py 25), play_command goes on
GuildConnected(g) ==
  /\ HasManager(g)
  /\ Manager(g).pending = <<"connect">>
  /\ Store(g, m_play([Manager(g) EXCEPT !.voice = "connected", !.pending = <<>>], "a", "music"))

\* MusicCog.seek (music_cog.py 84-95) with AudioSourceManager.seek (197-221)
GuildSeek(g) ==
  /\ HasManager(g)
  /\ Manager(g).pending = <<>>
  /\ Manager(g)._play_task < MaxGuildTasks
  /\ Manager(g).current_track # None
  /\ IF m_active(Manager(g))
       THEN Store(g, m_cancel_await(Manager(g), "seek"))
       ELSE Store(g, m_create(Manager(g)))

\* stop_command (commands.py 98-103) with AudioSourceManager.stop (234-243)
GuildStop(g) ==
  /\ HasManager(g)
  /\ m_playing(Manager(g))
  /\ Store(g, [Manager(g) EXCEPT !.cancelled = TRUE, !.current_track = None,
                                 !.current_type = None])

\* pause_command, resume_command (commands.py 84-96)
GuildPause(g) ==
  /\ HasManager(g)
  /\ m_playing(Manager(g))
  /\ Store(g, [Manager(g) EXCEPT !.paused = TRUE])

GuildUnpause(g) ==
  /\ HasManager(g)
  /\ Manager(g).voice = "connected"
  /\ Manager(g).paused
  /\ Store(g, [Manager(g) EXCEPT !.paused = FALSE])

\* MusicCog.set_volume (music_cog.py 73-82) with AudioSourceManager.set_volume
\* (49-56); the play() it schedules while a track is playing is run at once
GuildVolume(g, volume) ==
  /\ HasManager(g)
  /\ Manager(g).pending = <<>>
  /\ Manager(g)._play_task < MaxGuildTasks
  /\ Manager(g).current_type # None
  /\ LET m == [Manager(g) EXCEPT !.volumes[Manager(g).current_type] = volume]
     IN IF m_playing(m)
          THEN Store(g, m_play(m, m.current_track, m.current_type))
          ELSE Store(g, m)

\* loop_command (commands.py 105-111) with AudioSourceManager.set_loop (58-63)
GuildLoop(g, enable) ==
  /\ HasManager(g)
  /\ Manager(g).current_type # None
  /\ LET m == [Manager(g) EXCEPT !.loop_flags[Manager(g).current_type] = enable]
     IN IF ~enable /\ m_active(m)
          THEN Store(g, [m EXCEPT !.cancelled = TRUE])
          ELSE Store(g, m)

\* MusicCog.fade_config (music_cog.py 187-224) with set_fade_enabled (326-335)
GuildFade(g, type, enable) ==
  /\ HasManager(g)
  /\ Store(g, [Manager(g) EXCEPT !.fade_config[type].in_enabled = enable])

\* MusicCog.leave (music_cog.py 62-71) with cancel_loop_task (255-262)
GuildLeave(g) ==
  /\ HasManager(g)
  /\ Manager(g).pending = <<>>
  /\ Manager(g).voice # "none"
  /\ IF m_active(Manager(g))
       THEN Store(g, m_cancel_await(Manager(g), "leave"))
       ELSE Store(g, [Manager(g) EXCEPT !.voice = "none", !.paused = FALSE])

\* the task of the guild is done: cancelled, or its track has ended with the loop
\* flag of the current category off (91-117)
GuildTaskDone(g) ==
  /\ HasManager(g)
  /\ m_active(Manager(g))
  /\ \/ Manager(g).cancelled
     \/ Manager(g).current_type = None
     \/ /\ Manager(g).current_type # None
        /\ ~Manager(g).loop_flags[Manager(g).current_type]
        /\ ~Manager(g).paused
  /\ Store(g, [Manager(g) EXCEPT !.running = FALSE])

\* `await self._play_task` returns to the coroutine that waits for it (87-89,
\* 216-221, 262 and music_cog.py 67-68)
GuildAwaited(g) ==
  /\ HasManager(g)
  /\ Manager(g).pending # <<>>
  /\ Head(Manager(g).pending) # "connect"
  /\ ~Manager(g).running
  /\ IF Head(Manager(g).pending) = "leave"
       THEN Store(g, [Manager(g) EXCEPT !._play_task = 0, !.cancelled = FALSE,
                                      !.voice = "none", !.paused = FALSE, !.pending = <<>>])
       ELSE Store(g, m_create([Manager(g) EXCEPT !.pending = <<>>]))

\* the last command of guild g has taken effect: none of its coroutines is
\* suspended, its task is not waiting to be cancelled
GuildQuiet(g) ==
  HasManager(g) => Manager(g).pending = <<>> /\ ~(Manager(g).running /\ Manager(g).cancelled)

\* every step the bot takes for guild g: the commands of a user who waits for each
\* command to take effect in that guild, and what coroutines and task do later
GuildOperation(g) ==
  \/ GuildQuiet(g) /\ GuildPlay(g, "a", "music")
  \/ GuildConnected(g)
  \/ GuildQuiet(g) /\ GuildSeek(g)
  \/ GuildQuiet(g) /\ GuildStop(g)
  \/ GuildQuiet(g) /\ GuildPause(g)
  \/ GuildQuiet(g) /\ GuildUnpause(g)
  \/ \E v \in GuildVolumes : GuildQuiet(g) /\ GuildVolume(g, v)
  \/ \E e \in BOOLEAN : GuildQuiet(g) /\ GuildLoop(g, e)
  \/ \E e \in BOOLEAN : GuildQuiet(g) /\ GuildFade(g, "music", e)
  \/ GuildQuiet(g) /\ GuildLeave(g)
  \/ GuildTaskDone(g)
  \/ GuildAwaited(g)

TwoGuilds == \E g \in Guilds : GuildOperation(g)

\* no guild has a manager yet; the single-guild state is left aside, not connected
InitGuilds == Init /\ voice.conn = "none"

SpecGuilds == InitGuilds /\ [][TwoGuilds]_vars

\* ------------------------------------------------------------------ duration probes
\* The duration lookups of the operations, in the order the code makes them.
\* ffprobe.cache is the lru_cache of get_track_duration, least recently used first;
\* ffprobe.runs counts the ffprobe processes started for a path.
maxsize == 64
ProbePaths == {"a", "b", "u"}

Cached(cache, path) == \E i \in 1..Len(cache) : cache[i] = path

\* the path becomes the most recently used; beyond maxsize entries the least
\* recently used one is dropped
Touch(cache, path) ==
  LET kept == Append(SelectSeq(cache, LAMBDA q : q # path), path)
  IN IF Len(kept) > maxsize THEN Tail(kept) ELSE kept

\* get_track_duration (350-365) behind @lru_cache(maxsize=64): ffprobe runs when the
\* path is not in the cache; its answer is kept, a failure (0.0) too
cached_duration(fp, path) ==
  [cache |-> Touch(fp.cache, path),
   runs |-> IF Cached(fp.cache, path) THEN fp.runs ELSE [fp.runs EXCEPT ![path] = @ + 1]]

\* _get_audio_duration (223-232): ffprobe runs at every call, nothing is kept
_get_audio_duration(fp, path) == [fp EXCEPT !.runs[path] = @ + 1]

ProbeFrame ==
  UNCHANGED <<current_track, current_type, loop_flags, volumes, fade_config, _play_task,
              _play_lock, since_start, _start_seek_offset, voice, live, tasks, cmds,
              script, reply, mixer, guild_players, _palette_loop_enabled>>

\* a task launches the track (play, and every restart): _play_source asks for the
\* duration (124), and so does _create_audio_source for the fade-out (174)
launch_lookups(path) ==
  /\ ffprobe.runs[path] < MaxProbes
  /\ ffprobe' = cached_duration(cached_duration(ffprobe, path), path)
  /\ ProbeFrame

\* seek asks with _get_audio_duration (202) before it restarts the task
seek_lookups(path) ==
  /\ ffprobe.runs[path] < MaxProbes
  /\ ffprobe' = _get_audio_duration(ffprobe, path)
  /\ ProbeFrame

\* fade_out asks for the duration of the current track (286)
fade_out_lookups(path) ==
  /\ ffprobe.runs[path] < MaxProbes
  /\ ffprobe' = cached_duration(ffprobe, path)
  /\ ProbeFrame

Probing ==
  \/ \E p \in ProbePaths : launch_lookups(p)
  \/ \E p \in ProbePaths : seek_lookups(p)
  \/ \E p \in ProbePaths : fade_out_lookups(p)

SpecProbe == Init /\ [][Probing]_vars

\* ------------------------------------------------------------------ connect scenario
\* what the user gets when voice_channel.connect() raises inside play_command:
\* the guild already has a voice client, connected or on its way
ConnectRefusedReply == "already connected to a voice channel"

\* a connect of the guild is on its way
Connecting == \E i \in 1..Len(cmds) : cmds[i].op \in {"connect", "connect_mix"}

\* play_command (commands.py 9-52) while the guild's voice client is on its way in
\* or out: ensure_voice (functions.py 23-25) looks at player.voice only, calls
\* voice_channel.connect() again, the library refuses, and the exception ends the
\* command before player.play
play_command_refused(path, type) ==
  /\ ~Hung
  /\ ~is_connected
  /\ \E i \in 1..Len(cmds) : cmds[i].op \in {"connect", "connect_mix", "disconnect"}
  /\ reply' = ConnectRefusedReply
  /\ UNCHANGED <<elsewhere, script, current_track, current_type, loop_flags, volumes,
                 fade_config, _play_task, _play_lock, since_start, _start_seek_offset,
                 voice, live, tasks, cmds>>

\* play commands for two tracks at any time, and what follows from them
ConnectPaths == {"a", "b"}

Connects ==
  \/ \E p \in ConnectPaths : PlayCommand(p, "music")
  \/ \E p \in ConnectPaths : play_command_refused(p, "music")
  \/ \E i \in 1..Len(cmds) : Connected(i)
  \/ \E i \in 1..Len(cmds) : ResumePlay(i)
  \/ Tasks

SpecConnect == Init /\ [][Connects]_vars

\* ------------------------------------------------------------------ stop scenario
\* commands in any order until one stop command has stopped the playback; nothing
\* is invoked after it, the coroutines and tasks in flight run on
Stopped == reply = StoppedReply

StopLast ==
  \/ \E p \in PlayPaths, c \in CmdTypes : ~Stopped /\ PlayCommand(p, c)
  \/ \E pos \in SeekArgs : ~Stopped /\ seek(pos)
  \/ \E d \in FadeArgs : ~Stopped /\ fade_out(d)
  \/ \E d \in FadeArgs : ~Stopped /\ restart_with_fade_in(d)
  \/ \E c \in CmdTypes, v \in VolumeArgs : ~Stopped /\ set_volume(c, v)
  \/ ~Stopped /\ stop_command
  \/ \E i \in 1..Len(cmds) : ResumePlay(i)
  \/ \E i \in 1..Len(cmds) : ResumeSeek(i)
  \/ \E i \in 1..Len(cmds) : ResumeFadeOut(i)
  \/ \E i \in 1..Len(cmds) : ResumeRestart(i)
  \/ \E i \in 1..Len(cmds) : Connected(i)
  \/ \E i \in 1..Len(cmds) : StartPlay(i)
  \/ Tasks

SpecStopLast == Init /\ [][StopLast]_vars

\* ------------------------------------------------------------------ after leave scenario
\* one user who waits for a command to take effect before the next one: a track is
\* played, the bot is told to leave, and seek and the two fades are asked for
AfterLeave ==
  \/ QuietPlay
  \/ QuietLeave
  \/ \E pos \in SeekArgs : QuietSeekTo(pos)
  \/ \E d \in FadeArgs : QuietFadeOut(d)
  \/ \E d \in FadeArgs : QuietRestart(d)
  \/ \E i \in 1..Len(cmds) : ResumePlay(i)
  \/ \E i \in 1..Len(cmds) : ResumeSeek(i)
  \/ \E i \in 1..Len(cmds) : ResumeFadeOut(i)
  \/ \E i \in 1..Len(cmds) : ResumeRestart(i)
  \/ \E i \in 1..Len(cmds) : ResumeLeave(i)
  \/ \E i \in 1..Len(cmds) : Disconnected(i)
  \/ \E i \in 1..Len(cmds) : Connected(i)
  \/ \E t \in TaskIds : TaskCancelled(t)
  \/ \E t \in TaskIds : TaskStart(t)
  \/ \E t \in TaskIds : TaskWake(t)
  \/ \E err \in BOOLEAN : SourceEnd(err)

SpecAfterLeave == Init /\ [][AfterLeave]_vars

\* ------------------------------------------------------------------ interleaving scenario
\* play of two tracks, seek, set_volume and stop, called in any order and at any
\* time, also while an earlier call is suspended
TwoTracks == {"a", "b"}

Interleaving ==
  \/ \E p \in TwoTracks : PlayCommand(p, "music")
  \/ \E pos \in SeekArgs : seek(pos)
  \/ \E v \in VolumeArgs : set_volume("music", v)
  \/ stop
  \/ \E i \in 1..Len(cmds) : ResumePlay(i)
  \/ \E i \in 1..Len(cmds) : ResumeSeek(i)
  \/ \E i \in 1..Len(cmds) : Connected(i)
  \/ \E i \in 1..Len(cmds) : StartPlay(i)
  \/ Tasks

SpecInterleaving == Init /\ [][Interleaving]_vars

\* ------------------------------------------------------------------ paused clock scenario
\* a track is played, paused and resumed while the clock runs, and fade_out is asked
\* for at the position the manager reports
PausedClock ==
  \/ PlayCommand("a", "music")
  \/ pause
  \/ resume
  \/ \E d \in FadeArgs : fade_out(d)
  \/ \E i \in 1..Len(cmds) : ResumePlay(i)
  \/ \E i \in 1..Len(cmds) : ResumeFadeOut(i)
  \/ \E i \in 1..Len(cmds) : Connected(i)
  \/ Tick
  \/ Tasks

SpecPausedClock == Init /\ [][PausedClock]_vars

\* ------------------------------------------------------------------ palette loop scenario
\* the answers of loop_command (commands.py 107, 111)
NoCurrentTrackReply == "no current track"
LoopOnReply == "loop on"
LoopOffReply == "loop off"

\* loop_command (commands.py 105-111) with set_loop (58-63): without a current
\* category it answers and changes nothing
loop_answer(enable) ==
  /\ ~Hung
  /\ IF current_type = None
       THEN /\ reply' = NoCurrentTrackReply
            /\ UNCHANGED <<loop_flags, tasks>>
       ELSE /\ loop_flags' = [loop_flags EXCEPT ![current_type] = enable]
            /\ tasks' = IF ~enable /\ TaskActive THEN cancel(tasks, _play_task) ELSE tasks
            /\ reply' = IF enable THEN LoopOnReply ELSE LoopOffReply
  /\ UNCHANGED <<script, current_track, current_type, volumes, fade_config, _play_task, _play_lock,
                 since_start, _start_seek_offset, voice, live, cmds>>

\* /loop (music_cog.py 98-101)
loop_command(enable) == loop_answer(enable) /\ UNCHANGED elsewhere

\* the state the Loop button starts from (526-528): the attribute the palette keeps
\* on the manager, False before the first press (the manager has no attribute loop)
palette_state == Given(_palette_loop_enabled, FALSE)

\* on_control_pressed (music_palette.py 481-533), action "loop", pressed by the
\* palette's owner on a guild that has a manager
on_control_pressed_loop ==
  LET new_state == ~palette_state
  IN /\ loop_answer(new_state)
     /\ _palette_loop_enabled' = {new_state}
     /\ UNCHANGED <<mixer, guild_players, ffprobe>>

\* tracks of two categories are played and stopped, /loop is given and the Loop
\* button pressed, in any order
PaletteLoop ==
  \/ \E c \in LoopTypes : PlayCommand("a", c)
  \/ \E e \in BOOLEAN : loop_command(e)
  \/ on_control_pressed_loop
  \/ stop
  \/ \E i \in 1..Len(cmds) : ResumePlay(i)
  \/ \E i \in 1..Len(cmds) : Connected(i)
  \/ Tasks

SpecPaletteLoop == Init /\ [][PaletteLoop]_vars

\* ------------------------------------------------------------------ properties
NonTerminalTasks == {t \in TaskIds : tasks[t].st \in NonTerminal}

\* C1: at no instant do two playback tasks that have not terminated exist for the
\* same AudioSourceManager.
C1_AtMostOneTask == Cardinality(NonTerminalTasks) <= 1

\* both calls have been made and have returned, and every task has taken the steps
\* it can take without its audio ending
DoubleSettled ==
  /\ script = 2
  /\ cmds = <<>>
  /\ \A t \in TaskIds : tasks[t].st # "new" /\ ~tasks[t].cancel

\* C2: after play(a, music) at once followed by play(b, music) no task for a ever gets
\* past its first statement, and once things have settled at most one task is left
\* running, it plays b, and current_track is b.
C2_SecondPlayWins ==
  /\ script = 2 => \A t \in TaskIds : tasks[t].path = "a" => tasks[t].st = "new"
  /\ DoubleSettled =>
       /\ Cardinality(NonTerminalTasks) <= 1
       /\ \A t \in NonTerminalTasks : tasks[t].path = "b"
       /\ current_track = "b"

\* C3: at no instant are two decode pipelines attached to the voice connection.
C3_OneSource == Cardinality(live) <= 1

\* C3 at work: a task was cancelled, and the task that followed it has launched its
\* source, seen it end and launched it again for a repeat; only that source is attached.
C3_Witness ==
  \E t, u \in TaskIds :
    /\ tasks[u].st = "cancelled"
    /\ u < t
    /\ tasks[t].st = "play" /\ tasks[t].again
    /\ voice.player = t /\ live = {t}

\* C4: a playback task whose cancellation was requested terminates as Cancelled at its
\* next step, whatever the loop flag: it does not evaluate the flag, does not go on
\* to another pass and attaches no pipeline.
C4_CancelledUnwinds ==
  [][\A t \in TaskIds :
       (tasks[t].cancel /\ tasks'[t] # tasks[t])
         => /\ tasks'[t].st = "cancelled"
            /\ voice' = voice
            /\ live' = live]_vars

\* C4 at work: a playing task has been cancelled while the loop flag of the current
\* category is on.
C4_Witness ==
  \E t \in TaskIds :
    /\ tasks[t].st = "play" /\ tasks[t].cancel
    /\ current_type \in Types /\ loop_flags[current_type]

\* C5: once a playback task has ended Cancelled, the voice connection no longer plays
\* the audio that task attached.
C5_CancelStopsAudio ==
  \A t \in TaskIds : tasks[t].st = "cancelled" => (voice.player # t /\ t \notin live)

\* a task handles the natural end of its audio in this step
HandlesEnd(t) ==
  /\ tasks[t].st = "play"
  /\ tasks[t].evt # "unset"
  /\ ~tasks[t].cancel
  /\ tasks'[t] # tasks[t]
  /\ ~tasks'[t].cancel

\* C6: when a task handles the natural end of its audio while the loop flag of the
\* current category is on, it does not finish: it plays the same path again from seek
\* offset 0 (at once, or after its turn at the lock), unless the pipeline cannot be
\* started (no connection: the pass never ends) or voice.play raises.
C6_LoopRelaunches ==
  [][\A t \in TaskIds :
       (HandlesEnd(t) /\ current_type \in Types /\ loop_flags[current_type])
         => /\ tasks'[t].st # "done"
            /\ tasks'[t].st \in {"play", "lock"}
                 => (tasks'[t].path = tasks[t].path /\ tasks'[t].seek = 0)
            /\ (is_connected /\ _play_lock.waiters = <<>>)
                 => \/ /\ tasks'[t].st = "play"
                       /\ voice'.player = t
                       /\ _start_seek_offset' = 0
                    \/ tasks'[t].st = "failed"]_vars

\* C6 at work: a task that is already in a repeat sees its audio end again with the
\* loop flag still on.
C6_Witness ==
  \E t \in TaskIds :
    /\ tasks[t].st = "play" /\ tasks[t].again /\ tasks[t].evt = "ok" /\ ~tasks[t].cancel
    /\ current_type \in Types /\ loop_flags[current_type]

\* C7: every pass of a task after its first one launches with seek offset 0 and
\* fade-in 0.
C7_RepeatFromStart ==
  \A t \in TaskIds :
    (tasks[t].again /\ tasks[t].st \in {"play", "lock"})
      => (tasks[t].seek = 0 /\ tasks[t].fi = 0 /\ LaunchSeek(tasks[t]) = 0)

\* C7 at work: a repeat is playing for a task that restart_with_fade_in created (the
\* only launch without fade-out while the music fade-out is enabled), so its first
\* launch had a fade-in.
C7_Witness ==
  \E t \in TaskIds :
    /\ tasks[t].again /\ tasks[t].st = "play" /\ voice.player = t
    /\ tasks[t].fo = 0
    /\ fade_config["music"].out_enabled /\ current_type = "music"

\* C8: when a task completes naturally with the loop flag off, the guild is left Idle
\* (no current track) and the connection stays as it is.
C8_IdleAfterEnd ==
  [][\A t \in TaskIds :
       (HandlesEnd(t) /\ tasks[t].evt = "ok"
          /\ ~(current_type \in Types /\ loop_flags[current_type]))
         => /\ tasks'[t].st = "done"
            /\ current_track' = None
            /\ current_type' = None
            /\ voice'.conn = voice.conn]_vars

\* C9: when the pipeline ends with an error, the task ends Failed, the guild falls
\* back to Idle and the pipeline is not relaunched.
C9_ErrorFails ==
  [][\A t \in TaskIds :
       (HandlesEnd(t) /\ tasks[t].evt = "error")
         => /\ tasks'[t].st = "failed"
            /\ current_track' = None
            /\ voice'.player # t]_vars

\* C10: stop() leaves the guild Idle (current_track and current_type cleared, nothing
\* playing, the active task cancelled), and a second stop() right after it would give
\* every field the value it already has.
C10_StopIdempotent ==
  [][stop =>
       /\ current_track' = None /\ current_type' = None
       /\ ~is_playing'
       /\ _play_task' # 0 => (tasks'[_play_task'].cancel \/ done(_play_task)')
       /\ stop_voice' = voice'
       /\ stop_live' = live'
       /\ stop_tasks' = tasks'
       /\ stop_track' = current_track'
       /\ stop_type' = current_type']_vars

\* C10 at work: stop() has just cancelled the task of a playing track.
C10_Witness ==
  /\ current_track = None
  /\ _play_task # 0
  /\ tasks[_play_task].st = "play" /\ tasks[_play_task].cancel
  /\ voice.conn = "connected" /\ voice.player = 0


\* C11: set_loop(category, enabled) stores the flag, and it cancels the active task
\* exactly when enabled is false and the category is the one that is playing.
C11_LoopCancelsOwnCategory ==
  [][\A c \in LoopTypes, e \in BOOLEAN :
       set_loop(c, e) =>
         /\ loop_flags'[c] = e
         /\ (TaskActive /\ ~tasks[_play_task].cancel)
              => (tasks'[_play_task].cancel <=> (~e /\ current_type = c))
         /\ ~(~e /\ current_type = c) => tasks' = tasks]_vars


\* C12: set_volume(category, v) stores v. When the category is the one playing, the
\* stream is stopped and a play() of the same track is scheduled; the task that play()
\* creates starts at offset 0, and once things are quiet at most one task is left and
\* the source it plays has the stored volume. Otherwise only the volume changes.
C12_VolumeRestarts ==
  [][/\ \A c \in LoopTypes, v \in VolumeLevels :
          set_volume(c, v) =>
            /\ volumes'[c] = v
            /\ IF current_type = c /\ is_playing
                 THEN /\ ~is_playing'
                      /\ cmds' = Append(cmds, Cmd("play_new", 0, current_track, c, 0, 0, 0))
                 ELSE UNCHANGED <<voice, live, tasks, cmds>>
            /\ UNCHANGED <<current_track, current_type, _play_task>>
     /\ \A i \in 1..Len(cmds) :
          ((StartPlay(i) \/ ResumePlay(i)) /\ Len(tasks') > Len(tasks))
            => /\ tasks'[Len(tasks')].seek = 0
               /\ tasks'[Len(tasks')].path = cmds[i].path
     /\ Quiet' =>
          /\ Cardinality(NonTerminalTasks') <= 1
          /\ \A t \in NonTerminalTasks' :
               /\ tasks'[t].path = current_track'
               /\ (tasks'[t].st = "play" /\ voice'.player = t)
                    => tasks'[t].vol = volumes'[current_type']]_vars

\* C12 at work: the music volume was raised while music was playing, and the track
\* plays again from the start with the new volume under a later task.
C12_Witness ==
  /\ Quiet
  /\ volumes["music"] = 2
  /\ \E t \in TaskIds :
       /\ t > 1
       /\ tasks[t].st = "play" /\ voice.player = t /\ tasks[t].vol = 2
       /\ tasks[t].seek = 0 /\ _start_seek_offset = 0


\* the offset seek(position) has to restart the current track at
SeekTarget(position) ==
  IF position >= get_track_duration(current_track) THEN 0 ELSE position

\* task t attaches a source in this step
Launches(t) ==
  /\ tasks'[t].st = "play"
  /\ voice'.player = t
  /\ tasks[t].st # "play" \/ tasks[t].evt # "unset"

\* C13: seek(position) on a current track restarts it at offset 0 when position is
\* at or past the duration, and at position itself otherwise: that offset is what
\* the suspended call carries, what the task it creates is given, and what the
\* first launch of that task starts from.
C13_SeekClamp ==
  [][/\ \A pos \in SeekPositions :
          (seek(pos) /\ HasTrack) =>
            IF TaskActive
              THEN /\ Len(cmds') = Len(cmds) + 1
                   /\ cmds'[Len(cmds')].op = "seek"
                   /\ cmds'[Len(cmds')].pos = SeekTarget(pos)
              ELSE /\ Len(tasks') = Len(tasks) + 1
                   /\ tasks'[Len(tasks')].path = current_track
                   /\ tasks'[Len(tasks')].seek = SeekTarget(pos)
     /\ \A i \in 1..Len(cmds) :
          ResumeSeek(i) =>
            /\ tasks'[Len(tasks')].path = current_track
            /\ tasks'[Len(tasks')].seek = cmds[i].pos
     /\ \A t \in TaskIds :
          (Launches(t) /\ ~tasks[t].again) => _start_seek_offset' = tasks[t].seek]_vars

\* C13 at work: the track plays from offset 1 after a seek inside it, and a seek past
\* its end is waiting to restart it at offset 0.
C13_Witness ==
  /\ _start_seek_offset = 1
  /\ \E i \in 1..Len(cmds) : cmds[i].op = "seek" /\ cmds[i].pos = 0


\* seek offset and fade-out duration that the fade_out call of this step hands to the
\* task it creates, or carries through its await
FadeSeek == IF TaskActive THEN cmds'[Len(cmds')].pos ELSE tasks'[Len(tasks')].seek
FadeLength == IF TaskActive THEN cmds'[Len(cmds')].fo ELSE tasks'[Len(tasks')].fo

\* C14: after fade_out(d) at position p the relaunch starts at offset p, and its
\* fade-out starts at second 0 of the relaunched stream and ends at the end of the
\* track.
C14_FadeStartsNow ==
  [][\A d \in FadeLengths :
       fade_out(d) =>
         /\ FadeSeek = get_current_position
         /\ FadeOutStart(current_track, FadeSeek, FadeLength) = 0
         /\ FadeOutStart(current_track, FadeSeek, FadeLength) + FadeLength
              = get_track_duration(current_track) - get_current_position]_vars

\* C15: fade_out(requested) relaunches with a fade-out of min(requested, remaining),
\* remaining being the duration minus the current position.
C15_FadeClamp ==
  [][\A d \in FadeLengths :
       fade_out(d) =>
         FadeLength = (IF d <= get_track_duration(current_track) - get_current_position
                         THEN d
                         ELSE get_track_duration(current_track) - get_current_position)]_vars

\* C15 at work: a fade-out of 3 seconds was asked for at the start of the track of 2
\* seconds, and the task that plays was given a fade-out of 2 seconds.
C15_Witness ==
  \E t \in TaskIds :
    /\ tasks[t].st = "play" /\ voice.player = t
    /\ tasks[t].fo = 2 /\ tasks[t].seek = 0


\* fade-in and fade-out that the play() call of this step hands to the task it
\* creates, or carries through its await
PlayFadeIn == IF TaskActive THEN cmds'[Len(cmds')].fi ELSE tasks'[Len(tasks')].fi
PlayFadeOut == IF TaskActive THEN cmds'[Len(cmds')].fo ELSE tasks'[Len(tasks')].fo

\* C16: play(path, category, fade_in, fade_out) on a connected guild uses fade_in
\* itself when it is > 0, else the in_dur of the category when in_enabled, else 0,
\* and the same for fade_out with out_enabled and out_dur; the task is created with
\* these values and its first launch is given them.
C16_EffectiveFades ==
  [][/\ \A c \in LoopTypes, fi \in PlayFades, fo \in PlayFades :
          (play_with_fades("a", c, fi, fo) /\ is_connected) =>
            /\ PlayFadeIn = (IF fi > 0 THEN fi
                               ELSE IF fade_config[c].in_enabled THEN fade_config[c].in_dur
                               ELSE 0)
            /\ PlayFadeOut = (IF fo > 0 THEN fo
                                ELSE IF fade_config[c].out_enabled THEN fade_config[c].out_dur
                                ELSE 0)
     /\ \A i \in 1..Len(cmds) :
          ResumePlay(i) =>
            /\ tasks'[Len(tasks')].fi = cmds[i].fi
            /\ tasks'[Len(tasks')].fo = cmds[i].fo
     /\ \A t \in TaskIds :
          (Launches(t) /\ ~tasks[t].again)
            => (tasks'[t].fi = tasks[t].fi /\ tasks'[t].fo = tasks[t].fo)]_vars

\* C16 at work: with fade-in enabled at 4 seconds for music, a play() without
\* durations of its own is waiting with the configured ones, to replace a task that
\* was played with both durations given.
C16_Witness ==
  /\ fade_config["music"].in_enabled /\ fade_config["music"].in_dur = 4
  /\ \E i \in 1..Len(cmds) : cmds[i].op = "play" /\ cmds[i].fi = 4 /\ cmds[i].fo = 5
  /\ \E t \in TaskIds : tasks[t].st = "cancelled"


\* C17: a play() that finds the voice connection absent or not connected returns
\* without side effects: current_track, current_type, the active task and the tasks
\* are what they were, and nothing is left waiting.
C17_PlayNeedsConnection ==
  [][\A i \in 1..Len(cmds) :
       (StartPlay(i) /\ ~is_connected) =>
         /\ UNCHANGED <<current_track, current_type, _play_task, tasks, voice, live>>
         /\ cmds' = RemoveAt(cmds, i)]_vars

\* C17 at work: the play() that set_volume scheduled is about to run, a track is
\* current, and the voice connection has been dropped in the meantime.
C17_Witness ==
  /\ ~is_connected
  /\ current_track # None
  /\ \E i \in 1..Len(cmds) : cmds[i].op = "play_new"


\* C18: seek(position) without a current track returns without side effects: no
\* task is cancelled or created and every field of the manager keeps its value.
C18_SeekNeedsTrack ==
  [][\A pos \in SeekArgs : (seek(pos) /\ current_track = None) => UNCHANGED vars]_vars

\* C18 at work: stop() has cleared the current track while the task it cancelled has
\* not unwound yet; a seek here must leave that task and everything else alone.
C18_Witness ==
  /\ current_track = None
  /\ TaskActive
  /\ tasks[_play_task].cancel


\* C19: when nothing is playing on the guild's voice connection the pause command
\* answers "nothing to pause" and changes nothing else: the current track stays as it
\* was (an Idle guild stays Idle) and the connection is not paused; likewise the
\* resume command answers "nothing to resume" and changes nothing when nothing is
\* paused.
C19_NothingToPause ==
  [][/\ (pause_command /\ ~(voice.conn # "none" /\ is_playing)) =>
          /\ reply' = NothingToPauseReply
          /\ UNCHANGED <<elsewhere, current_track, current_type, loop_flags, volumes, fade_config,
                         _play_task, _play_lock, since_start, _start_seek_offset, voice,
                         live, tasks, cmds, script>>
     /\ (resume_command /\ ~(voice.conn # "none" /\ is_paused)) =>
          /\ reply' = NothingToResumeReply
          /\ UNCHANGED <<elsewhere, current_track, current_type, loop_flags, volumes, fade_config,
                         _play_task, _play_lock, since_start, _start_seek_offset, voice,
                         live, tasks, cmds, script>>]_vars

\* C19 at work: a track was played and stopped, and a pause on the Idle guild has
\* been refused: the connection is there, nothing plays on it and it is not paused.
C19_Witness ==
  /\ reply = NothingToPauseReply
  /\ current_track = None
  /\ voice.conn = "connected"
  /\ voice.player = 0
  /\ ~voice.paused
  /\ tasks # <<>>


\* C20: pause() and resume() never create, cancel or replace the playback task and
\* leave current_track, current_type, the loop flags, the volumes and the fade
\* configuration unchanged; they act on the voice connection only, which keeps the
\* player it has: after pause() that player is paused, after resume() the same
\* player of the same task is playing again.
C20_PauseResumeFrame ==
  [][/\ (pause \/ resume) =>
          /\ UNCHANGED <<tasks, _play_task, current_track, current_type, loop_flags,
                         volumes, fade_config, live, cmds>>
          /\ voice'.player = voice.player
          /\ voice'.conn = voice.conn
     /\ pause => voice'.paused
     /\ resume => ~voice'.paused /\ voice'.player # 0]_vars

\* C20 at work: the connection is paused while the task that started the player is
\* still the manager's playback task, still inside its playback, not cancelled.
C20_Witness ==
  /\ is_paused
  /\ _play_task = voice.player
  /\ tasks[_play_task].st = "play"
  /\ ~tasks[_play_task].cancel
  /\ current_track = tasks[_play_task].path


\* what the fade setters and get_fade_settings have no business with
FadeSettersFrame ==
  UNCHANGED <<current_track, current_type, loop_flags, volumes, _play_task, _play_lock,
              since_start, _start_seek_offset, voice, live, tasks, cmds>>

\* C21: set_fade_enabled and set_fade_duration change only fade_config of the
\* category they are called for, and there only the fields passed as non-None, which
\* take the value passed; get_fade_settings changes nothing. None of them touches the
\* playback task, the voice connection, current_track, the loop flags, the volumes
\* or the fade settings of another category.
C21_FadeSettersFrame ==
  [][/\ \A i \in Switches, o \in Switches :
          QuietFadeEnabled(i, o) =>
            /\ FadeSettersFrame
            /\ \A c \in Types \ {"music"} : fade_config'[c] = fade_config[c]
            /\ fade_config'["music"].in_dur = fade_config["music"].in_dur
            /\ fade_config'["music"].out_dur = fade_config["music"].out_dur
            /\ fade_config'["music"].in_enabled \in
                 (IF i = {} THEN {fade_config["music"].in_enabled} ELSE i)
            /\ fade_config'["music"].out_enabled \in
                 (IF o = {} THEN {fade_config["music"].out_enabled} ELSE o)
     /\ \A i \in InDurations, o \in OutDurations :
          QuietFadeDuration(i, o) =>
            /\ FadeSettersFrame
            /\ \A c \in Types \ {"music"} : fade_config'[c] = fade_config[c]
            /\ fade_config'["music"].in_enabled = fade_config["music"].in_enabled
            /\ fade_config'["music"].out_enabled = fade_config["music"].out_enabled
            /\ fade_config'["music"].in_dur \in
                 (IF i = {} THEN {fade_config["music"].in_dur} ELSE i)
            /\ fade_config'["music"].out_dur \in
                 (IF o = {} THEN {fade_config["music"].out_dur} ELSE o)
     /\ \A c \in Types :
          read_fade_settings(c) => FadeSettersFrame /\ UNCHANGED fade_config]_vars

\* C21 at work: while a track plays, fade-in of music has been switched on and its
\* fade-out length changed; the other two fields of music and the settings of the
\* other categories are the ones the manager started with.
C21_Witness ==
  /\ fade_config["music"] = [in_enabled |-> TRUE, out_enabled |-> TRUE, in_dur |-> 3, out_dur |-> 4]
  /\ fade_config["ambient"] = [in_enabled |-> FALSE, out_enabled |-> FALSE, in_dur |-> 2, out_dur |-> 2]
  /\ fade_config["mixed"] = [in_enabled |-> FALSE, out_enabled |-> TRUE, in_dur |-> 3, out_dur |-> 5]
  /\ is_playing


\* the tasks whose source is attached to the voice connection or was until it ended
Playing == {t \in TaskIds : tasks[t].st = "play"}

\* C22: when the duration probe of a path fails (duration 0.0), a launch of that path
\* with a fade-out skips the fade-out computation: its source carries no fade-out
\* filter, in particular none that starts at time 0 of the stream.
C22_NoFadeOutWithoutDuration ==
  \A t \in Playing :
    get_track_duration(tasks[t].path) = 0 => tasks[t].source.afade_out = {}


\* C28: every pipeline launched by _play_source starts at an offset s with
\* 0 <= s < duration(path) when the duration is known, and at s = 0 when it is not
\* (failed probe, 0.0), whatever position seek was given or fade_out computed.
C28_OffsetInsideTrack ==
  \A t \in Playing :
    LET duration == get_track_duration(tasks[t].path)
        s == tasks[t].source.ss
    IN /\ s >= 0
       /\ duration > 0 => s < duration
       /\ duration = 0 => s = 0

\* C28 at work: the track without a duration was sought to a position, its task was
\* given that position, and its pipeline was launched at offset 0.
C28_Witness ==
  \E t \in Playing :
    /\ tasks[t].path = "u"
    /\ tasks[t].seek > 0
    /\ tasks[t].source.ss = 0
    /\ _start_seek_offset = 0


\* C29: the filter chain built for a launch (path, seek, fadeIn, fadeOut) always has
\* volume = volumes[current category]; it has a fade-in at start 0 of length fadeIn
\* exactly when fadeIn > 0; and it has a fade-out of length fadeOut that starts at
\* max(remaining - fadeOut, 0) exactly when fadeOut > 0, where remaining =
\* duration(path) - seek. seek, fadeIn and fadeOut are the task's own at that launch.
C29_FilterChain ==
  [][\A t \in TaskIds :
       Launches(t) =>
         LET tk == tasks'[t]
             remaining == get_track_duration(tk.path) - tk.source.ss
             start == IF remaining - tk.fo >= 0 THEN remaining - tk.fo ELSE 0
         IN /\ tk.source.ss = _start_seek_offset'
            /\ tk.source.volume = volumes[current_type]
            /\ tk.source.afade_in = (IF tk.fi > 0 THEN {<<0, tk.fi>>} ELSE {})
            /\ tk.source.afade_out = (IF tk.fo > 0 THEN {<<start, tk.fo>>} ELSE {})]_vars

\* C29 at work: after the volume of music was changed and the track restarted with a
\* fade-in, its source plays at the new volume with the fade-in and no fade-out.
C29_Witness ==
  /\ \E t \in Playing :
       /\ tasks[t].source.volume = 2
       /\ tasks[t].source.afade_in = {<<0, 2>>}
       /\ tasks[t].source.afade_out = {}
  /\ volumes["music"] = 2


\* C27: every playback task eventually either is suspended waiting for its audio to
\* complete or has terminated; in particular a task whose pipeline cannot be started
\* (voice absent or disconnected, file missing) terminates, also when the loop flag
\* of the current category is on.
C27_TaskSettles ==
  \A t \in 1..MaxTasks :
    (Len(tasks) >= t) ~> (Len(tasks) >= t /\ tasks[t].st \in {"play"} \cup Terminal)


\* the leave command returns in this step: `player.voice = None` after the
\* disconnect, at once when the client had lost its connection already
LeaveCompletes ==
  \/ \E i \in 1..Len(cmds) : Disconnected(i)
  \/ leave /\ ~TaskActive /\ voice.conn # "connected"
  \/ \E i \in 1..Len(cmds) : ResumeLeave(i) /\ voice.conn # "connected"

C23_MixerSymmetry ==
  \A c \in mixer.command :
    c = [long_path |-> mix_tracks(mixer.ambient_path, mixer.music_path,
                                  mixer.ambient_vol, mixer.music_vol).long_path,
         short_path |-> mix_tracks(mixer.ambient_path, mixer.music_path,
                                   mixer.ambient_vol, mixer.music_vol).short_path,
         long_vol |-> mix_tracks(mixer.ambient_path, mixer.music_path,
                                 mixer.ambient_vol, mixer.music_vol).long_vol,
         short_vol |-> mix_tracks(mixer.ambient_path, mixer.music_path,
                                  mixer.ambient_vol, mixer.music_vol).short_vol]

\* C24: when ffmpeg exits with a code other than 0, the mix command answers with
\* the failure and the text ffmpeg wrote, and starts nothing: current track, active
\* task, the tasks and the voice connection stay as they were, and the mix is not
\* reported as playing
C24_MixFailureReported ==
  [][\A i \in 1..Len(cmds), e \in Diagnostics, v \in BOOLEAN :
        MixDone(i, 1, e, v) =>
          /\ reply' = "mix failed: mix error: " \o e
          /\ reply' # MixPlayingReply
          /\ UNCHANGED <<current_track, current_type, _play_task, tasks, voice, live>>]_vars

\* C24 happens: a failure was reported while the track played before goes on playing
C24_Witness ==
  /\ reply = "mix failed: mix error: invalid data"
  /\ current_track = "a"
  /\ _play_task # 0
  /\ tasks[_play_task].st = "play"

\* C25: a step the bot takes for one guild (play, seek, stop, pause, resume,
\* set_volume, set_loop, fades, leave, and what their coroutines and the task do
\* later) leaves the manager of every other guild as it was, field by field,
\* whatever the other guild has in flight
C25_GuildsIndependent ==
  [][\A g \in Guilds : GuildOperation(g) =>
        \A h \in Guilds \ {g} : guild_players'[h] = guild_players[h]]_vars

\* C25 happens: guild 1 plays a looped track at volume 2 with fade-in on while
\* guild 2, which has played and left, waits for its cancelled task
C25_Witness ==
  /\ \E m \in guild_players[1] :
        /\ m.running
        /\ m.volumes["music"] = 2
        /\ m.loop_flags["music"]
        /\ m.fade_config["music"].in_enabled
  /\ \E m \in guild_players[2] :
        /\ m.pending = <<"leave">>
        /\ m.volumes["music"] = 1

\* C30: while a path is among the most recently used ones kept by the cache, no
\* duration lookup of any operation starts ffprobe for it again
C30_ProbedOnce ==
  [][\A p \in ProbePaths :
        Cached(ffprobe.cache, p) => ffprobe'.runs[p] = ffprobe.runs[p]]_vars

\* C31: the reference to the active task never points at a task that has
\* terminated (completed, failed, stopped or cancelled): _play_task is not None only
\* while its task is still there to stream audio
C31_NoTerminalActiveTask == _play_task # 0 => ~done(_play_task)

\* this step is a call of voice_channel.connect(): a play command begins to wait for
\* it, or is refused by it
ConnectCalled ==
  \/ \E p \in ConnectPaths : play_command_refused(p, "music")
  \/ /\ Len(cmds') = Len(cmds) + 1
     /\ cmds'[Len(cmds')].op = "connect"

\* C32: while a connect of the manager is in progress, no play command calls
\* connect() again
C32_OneConnectAtATime == [][Connecting => ~ConnectCalled]_vars

\* C33: once stop has run and nothing is invoked after it, no audio starts on the
\* connection any more, whatever play, seek, fade_out, restart_with_fade_in or
\* volume restart was in flight when it ran
C33_StopWins ==
  [][Stopped => (voice'.player # 0 => voice'.player = voice.player)]_vars

\* C34: a stop command given while the guild has a current track whose audio is on
\* the connection, playing or paused, clears the current track, leaves no audio on
\* the connection (nothing a later resume could make audible) and leaves no task
\* that is not terminal or on its way out
C34_StopReachesIdle ==
  [][(stop_command /\ current_track # None /\ voice.player # 0) =>
        /\ current_track' = None
        /\ current_type' = None
        /\ voice'.player = 0
        /\ \A t \in 1..Len(tasks') : tasks'[t].st \in Terminal \/ tasks'[t].cancel]_vars

\* C35: a playback task is created only while the manager has a live voice
\* connection: seek, fade_out and restart_with_fade_in asked for after leave create
\* none
C35_NoTaskWithoutConnection ==
  [][Len(tasks') > Len(tasks) => voice'.conn = "connected"]_vars

\* C36: the audio that a launch attaches to the voice connection is the audio of
\* current_track with the volume stored for current_type: no launch attaches a path
\* other than current_track, and none attaches audio while current_track is None
C36_AudioIsCurrentTrack ==
  [][(voice'.player # 0 /\ voice'.player # voice.player) =>
        /\ current_track' # None
        /\ current_type' # None
        /\ tasks'[voice'.player].path = current_track'
        /\ tasks'[voice'.player].source.volume = volumes'[current_type']]_vars

\* C37: while audio is attached, get_current_position follows the audio: a second
\* of the clock moves it on by one second when the track is playing and leaves it
\* where it is when the track is paused, so that it stays the launch's seek offset
\* plus the seconds actually played
C37_PositionFollowsAudio ==
  [][(Tick /\ voice.player # 0) =>
        get_current_position' - get_current_position = (IF is_paused THEN 0 ELSE 1)]_vars

\* C38: a press of the palette's Loop button while a category is current inverts
\* the loop flag of that category, whatever /loop commands, changes of category and
\* presses without a current track came before
C38_LoopButtonInverts ==
  [][(on_control_pressed_loop /\ current_type # None) =>
        loop_flags'[current_type] = ~loop_flags[current_type]]_vars

\* C39: a failed probe is not remembered: when get_track_duration is called for a
\* path whose earlier probe failed (it returned 0.0), ffprobe is started for the
\* path again
C39_FailedProbeRetried ==
  [][\A p \in ProbePaths :
        (get_track_duration(p) = 0 /\ Cached(ffprobe.cache, p) /\ fade_out_lookups(p)) =>
           ffprobe'.runs[p] = ffprobe.runs[p] + 1]_vars

====
